---- MODULE Spec2Model ----
(***************************************************************************)
(* Verification model of the image batch processor:                        *)
(*   - ProcessingQueue          (src/utils/processingQueue.ts)             *)
(*   - processImage / processWithPipeline, aiUpscale / performUpscale      *)
(*                              (src/utils/imageProcessor.ts)              *)
(*   - the resolution metadata of PNG and JPEG files, byte by byte         *)
(*                              (imageProcessor.ts, results panel)         *)
(* JavaScript is single threaded: every action below is one run-to-        *)
(* completion section of code between two suspension points (await).       *)
(***************************************************************************)
EXTENDS Integers, Sequences, FiniteSets, TLC

\* ------------------------------------------------------------------ bounds
MaxLen == 3          \* longest batch handed to addImages
MaxRuns == 2         \* invocations of start() that are under way at the same time
MaxWrites == 2       \* writes of resolution metadata applied to one file in a row
MaxBytes == 3        \* longest byte sequence handed to calculateCRC on its own
MaxWidth == 4        \* widest image handed to applyEnhancement

ImageIds == 1..MaxLen

\* batches: image ids are handed out in increasing order and the caller's list
\* only grows at its end or loses items, so a batch is an increasing sequence
\* of distinct ids, of length 0..MaxLen
Batches ==
  { CHOOSE s \in [1..Cardinality(S) -> S] : \A a, b \in 1..Cardinality(S) : a < b => s[a] < s[b] :
      S \in SUBSET ImageIds }

\* how one processImage promise settles, as the queue sees it:
\* a result, or an Error carrying skipImage / userAborted / no mark
Outcomes == {"ok", "skip", "userAborted", "other"}

VARIABLES
  images,        \* the caller's array (App state `images`), handed to addImages
  queue,         \* the array object owned by the queue (this.queue after a copy)
  queueRef,      \* which array object this.queue points at: "own" or "caller"
  isProcessing,  \* this.isProcessing
  currentIndex,  \* this.currentIndex
  runs           \* one record per invocation of start() that passed the guard
                 \* (the slot of an invocation that returned is used again by a
                 \* later one):
                 \*   pc: where the async function is suspended ("none": the
                 \*       slot was never used)
                 \*   i: the loop variable,  image: id of `const image`
                 \* and the history of the callbacks it has invoked so far:
                 \*   started: loop indices passed to onImageStart
                 \*   completed / failed: loop indices passed to
                 \*       onImageComplete / onImageError
                 \*   abortSeen: a processImage of the run failed with an error
                 \*       marked userAborted
                 \*   nQueueComplete: invocations of onQueueComplete
                 \*   stopSeen: stop() was called while the run was under way

qvars == <<images, queue, queueRef, isProcessing, currentIndex, runs>>

\* one call of processImage (imageProcessor.ts), and the module-level state
\* of the upscaling module, which outlives the call
VARIABLES
  pipe,   \* the call of processImage under way:
          \*   image: its argument (options, and whether the source file
          \*          carries a resolution record)
          \*   pc: where processImage / processWithPipeline / performUpscale
          \*       is suspended
          \*   currentProgress, currentFile, intermediateUrl, pngUrl, svgUrl,
          \*   pngSize: the locals of processWithPipeline (progress in
          \*       1/ProgressUnit of a point)
          \*   allowFallback: performUpscale's parameter
          \*   live: object URLs created by the call and not revoked
          \*   outcome: how the call ended
          \*   reported: history of the calls of onProgress (value, call site)
          \*   stages: history of the stages invoked (input, output, whether
          \*       the output was converted to a File)
  ai      \* upscalerInstance, currentScale, desiredBackend, currentBackend,
          \* backendReady of the upscaling module, and tf.getBackend()

pvars == <<pipe, ai>>

\* one use of the resolution-metadata functions (imageProcessor.ts and the
\* results panel) on a file's bytes
VARIABLES
  codec   \* kind: "png" or "jpeg" for the writer the buffers go through
          \*       ("none": the functions are not in use)
          \* bufs: the input buffer and, after it, the output of each write
          \* dpis: the dpi argument of each write
          \* error: "none", or how the latest write failed
          \* readFile, readPanel: what readImageDPI and readPNGDPI returned
          \*       for the latest buffer ("unread": not called on it yet)
          \* final: pngUrl's blob and pngSize as the pipeline's finalization
          \*       step leaves them, and the error it caught

\* one use of the checksum functions of the PNG writer (imageProcessor.ts)
VARIABLES
  checksum  \* op: "none", or the function that was called
            \* call: the function that is about to be called
            \* data: the bytes given to calculateCRC, or the two arguments
            \*       of createPHYsChunk
            \* out: the number that calculateCRC returned, as a sequence of
            \*       one element, or the bytes of the chunk

\* one use of the enhancement filter (imageProcessor.ts) on an image
VARIABLES
  pixels    \* level: the denoiseLevel option
            \* width, height, data: the ImageData handed to applyEnhancement
            \*       (width 0: none); data holds four bytes per pixel
            \* called: applyEnhancement has returned
            \* out: the bytes of the ImageData it returned

\* the state of the App component (App.tsx) that the queue's callbacks and
\* the buttons change
VARIABLES
  app       \* view: 'upload', 'processing' or 'results'
            \* stats: total, completed, failed, currentIndex
            \* batch: images.length as handleStartProcessing saw it
            \* terminals: the calls of onImageComplete and onImageError
            \*       since the latest handleStartProcessing
            \* resetting: handleResetApp has run up to its first await, and
            \*       the page is not loaded again yet

cvars == <<codec, checksum, pixels, app>>

vars == <<qvars, pvars, cvars>>

\* ------------------------------------------------------------ the queue
\* this.queue, dereferenced
Queue == IF queueRef = "own" THEN queue ELSE images

\* `[...images]` allocates a fresh array object
NoCopy(ref) == ref
SpreadCopy(ref) == "own"

\* getProgress()
getProgress == [current |-> currentIndex, total |-> Len(Queue)]

RunIds == 1..MaxRuns
Active(r) == runs[r].pc \in {"inflight", "delay"}
InFlight == { r \in RunIds : runs[r].pc = "inflight" }
Ended(r) == runs[r].completed \cup runs[r].failed

NewRun ==
  [pc |-> "none", i |-> 0, image |-> 0,
   started |-> {}, completed |-> {}, failed |-> {}, abortSeen |-> FALSE,
   nQueueComplete |-> 0, stopSeen |-> FALSE]

\* `if (this.isProcessing) return`
StartGuard == isProcessing

\* for-loop condition `i < this.queue.length`
LoopCond(i) == i < Len(Queue)

\* the catch block of the loop body: does the error end the loop?
\* (the handler has no break / return / rethrow)
ErrorEndsLoopAlways(mark) == TRUE
ErrorEndsLoopOnSkip(mark) == mark = "skip"
ErrorEndsLoop(mark) == FALSE

\* the loop goes on only when `await processImage` has settled and the
\* 100 ms timer has fired
LoopMayAdvanceNoAwait(r) == runs[r].pc \in {"inflight", "delay"}
LoopMayAdvance(r) == runs[r].pc = "delay"

\* One pass of the loop header and body up to `await processImage(...)`,
\* or, when the loop condition is false, the code after the loop.
\* i is the value of the loop variable, run the record of the invocation.
EnterIterationSilent(i, run) ==
  IF LoopCond(i)
  THEN [run EXCEPT !.pc = "inflight", !.i = i, !.image = Queue[i + 1],
                   !.started = @ \cup {i}]
  ELSE [run EXCEPT !.pc = "done", !.i = i, !.image = 0]
EnterIteration(i, run) ==
  IF LoopCond(i)
  THEN [run EXCEPT !.pc = "inflight", !.i = i, !.image = Queue[i + 1],
                   !.started = @ \cup {i}]
  ELSE [run EXCEPT !.pc = "done", !.i = i, !.image = 0,
                   !.nQueueComplete = @ + 1]

\* addImages(images): the caller hands over its array, whose content is b
AddImages(b) ==
  /\ images' = b
  /\ queueRef' = SpreadCopy("caller")
  /\ queue' = b
  /\ currentIndex' = 0
  /\ UNCHANGED <<isProcessing, runs, pvars, cvars>>

\* the caller later changes its own array in place (push, pop, overwrite)
MutateCaller(b) ==
  /\ b # images
  /\ images' = b
  /\ UNCHANGED <<queue, queueRef, isProcessing, currentIndex, runs, pvars, cvars>>

\* the slots free for a new invocation of start()
FreeSlots == { r \in RunIds : ~ Active(r) }

\* start(), up to its first suspension (or to its end when the batch is empty)
Start ==
  /\ UNCHANGED <<pvars, cvars>>
  /\ IF StartGuard
     THEN UNCHANGED <<qvars, cvars>>
     ELSE /\ FreeSlots # {}
          /\ LET e == EnterIteration(0, NewRun)
                 r == CHOOSE f \in FreeSlots : \A g \in FreeSlots : f <= g
             IN /\ isProcessing' = (e.pc # "done")
                /\ currentIndex' = 0
                /\ runs' = [runs EXCEPT ![r] = e]
          /\ UNCHANGED <<images, queue, queueRef>>

\* stop()
Stop ==
  /\ isProcessing' = FALSE
  /\ runs' = [r \in RunIds |->
                IF Active(r) THEN [runs[r] EXCEPT !.stopSeen = TRUE] ELSE runs[r]]
  /\ UNCHANGED <<images, queue, queueRef, currentIndex, pvars, cvars>>

\* `await processImage(...)` settles for run r with outcome o: the rest of the
\* try block or the catch block runs, then the 100 ms timer is armed
SettledBoth(r, o) ==
  [runs EXCEPT
     ![r].pc = "delay",
     ![r].completed = @ \cup {runs[r].i},
     ![r].failed = IF o # "ok" THEN @ \cup {runs[r].i} ELSE @,
     ![r].abortSeen = @ \/ o = "userAborted"]
Settled(r, o) ==
  [runs EXCEPT
     ![r].pc = IF o # "ok" /\ ErrorEndsLoop(o) THEN "done" ELSE "delay",
     ![r].completed = IF o = "ok" THEN @ \cup {runs[r].i} ELSE @,
     ![r].failed = IF o # "ok" THEN @ \cup {runs[r].i} ELSE @,
     ![r].abortSeen = @ \/ o = "userAborted"]
ProcessSettles(r, o) ==
  /\ runs[r].pc = "inflight"
  /\ runs' = Settled(r, o)
  /\ UNCHANGED <<images, queue, queueRef, isProcessing, currentIndex, pvars, cvars>>

\* the timer fires: i++, loop condition, next iteration or the code after the loop
DelayElapsed(r) ==
  /\ LoopMayAdvance(r)
  /\ LET e == EnterIteration(runs[r].i + 1, runs[r])
     IN /\ runs' = [runs EXCEPT ![r] = e]
        /\ IF e.pc = "done"
           THEN isProcessing' = FALSE /\ UNCHANGED currentIndex
           ELSE currentIndex' = e.i /\ UNCHANGED isProcessing
  /\ UNCHANGED <<images, queue, queueRef, pvars, cvars>>

QInit ==
  /\ images = <<>>
  /\ queue = <<>>
  /\ queueRef = "own"
  /\ isProcessing = FALSE
  /\ currentIndex = 0
  /\ runs = [r \in RunIds |-> NewRun]

QNext ==
  \/ \E b \in Batches : AddImages(b)
  \/ \E b \in Batches : MutateCaller(b)
  \/ Start
  \/ Stop
  \/ \E r \in RunIds : \E o \in Outcomes : ProcessSettles(r, o)
  \/ \E r \in RunIds : DelayElapsed(r)

\* the same without calls of stop()
QNextNoStop ==
  \/ \E b \in Batches : AddImages(b)
  \/ \E b \in Batches : MutateCaller(b)
  \/ Start
  \/ \E r \in RunIds : \E o \in Outcomes : ProcessSettles(r, o)
  \/ \E r \in RunIds : DelayElapsed(r)

\* ------------------------------------------------------- the pipeline
\* progress values are multiples of 1/ProgressUnit of a point, which makes
\* 70 / enabledSteps and p * (progressPerStep / 100) exact
ProgressUnit == 30
Pct(n) == n * ProgressUnit

\* dpi 0 stands for 'original'
DpiChoices == {0, 72, 300}
ScaleChoices == {2, 3, 4, 5}

OptionSpace ==
  [enableBasicEnhancement : BOOLEAN, enableAIUpscale : BOOLEAN,
   enableVectorize : BOOLEAN, outputFormat : {"svg", "png", "both"},
   dpi : DpiChoices, upscaleFactor : ScaleChoices]

ImageSpace == [options : OptionSpace, fileHasDpi : BOOLEAN]

\* blobs, and the object URLs / Files that hold them: where the blob comes
\* from and how many resolution (pHYs) records it carries
Blob(k, n) == [k |-> k, phys |-> n]
NoUrl == Blob("none", 0)
OrigFile(img) == Blob("orig", IF img.fileHasDpi THEN 1 ELSE 0)

wantsPNGAlways(img) == TRUE
wantsPNG(img) == img.options.outputFormat \in {"png", "both"}
wantsSVG(img) == img.options.outputFormat \in {"svg", "both"}
runBasicEnhancement(img) == img.options.enableBasicEnhancement
runAIUpscale(img) == img.options.enableAIUpscale
runVectorizeAnyFormat(img) == img.options.enableVectorize
runVectorizeAnyOption(img) == wantsSVG(img)
runVectorize(img) == img.options.enableVectorize /\ wantsSVG(img)

B2N(b) == IF b THEN 1 ELSE 0

enabledStepsRaw(img) ==
  B2N(runBasicEnhancement(img)) + B2N(runAIUpscale(img)) + B2N(img.options.enableVectorize)
enabledSteps(img) ==
  B2N(runBasicEnhancement(img)) + B2N(runAIUpscale(img)) + B2N(runVectorize(img))

progressPerStep(img) ==
  IF enabledSteps(img) > 0 THEN Pct(70) \div enabledSteps(img) ELSE 0

\* onProgress(v), called from `site`
Report(p, v, site) == [p EXCEPT !.reported = Append(@, [v |-> v, site |-> site])]

\* the callback handed to aiUpscale: (p) => onProgress(currentProgress + p * (progressPerStep / 100))
AiReport(p, pct) ==
  Report(p, p.currentProgress + (pct * progressPerStep(p.image)) \div 100, "aiCallback")

\* `throw error` leaving processImage; mark is userAborted, skip or other
Throw(p, mark) == [p EXCEPT !.pc = "thrown", !.outcome = [kind |-> "error", mark |-> mark]]

\* the stage begun after stage number k (0: none yet, 1: enhancement,
\* 2: AI upscale, 3: vectorize)
AfterStage(k, img) ==
  IF k < 1 /\ runBasicEnhancement(img) THEN "enhance"
  ELSE IF k < 2 /\ runAIUpscale(img) THEN "aiLoad"
  ELSE IF k < 3 /\ runVectorize(img) THEN "vectorize"
  ELSE "post"

StageEntry(stage, input) == [stage |-> stage, input |-> input, output |-> NoUrl, conv |-> FALSE]
BeginStage(p, stage, input) == [p EXCEPT !.stages = Append(@, StageEntry(stage, input))]
EndStage(p, output, conv) ==
  [p EXCEPT !.stages[Len(p.stages)].output = output, !.stages[Len(p.stages)].conv = conv]

\* enhanceImage(file, options): the canvas is encoded as PNG and a resolution
\* record is added unless targetDPI is 0
targetDPI(file, img) ==
  IF img.options.dpi = 0 THEN (IF file.phys > 0 THEN 1 ELSE 0) ELSE img.options.dpi
enhanceImage(file, img) == Blob("enh", IF targetDPI(file, img) = 0 THEN 0 ELSE 1)

IdlePipe ==
  [image |-> [options |-> [enableBasicEnhancement |-> FALSE, enableAIUpscale |-> FALSE,
                           enableVectorize |-> FALSE, outputFormat |-> "png",
                           dpi |-> 0, upscaleFactor |-> 2],
              fileHasDpi |-> FALSE],
   pc |-> "idle", currentProgress |-> 0, currentFile |-> NoUrl,
   intermediateUrl |-> NoUrl, pngUrl |-> NoUrl, svgUrl |-> NoUrl, pngSize |-> NoUrl,
   allowFallback |-> TRUE, live |-> {}, outcome |-> [kind |-> "none", mark |-> ""],
   reported |-> <<>>, stages |-> <<>>, caught |-> <<>>]

\* processImage(image, onProgress) up to the first suspension of processWithPipeline
PBegin(img) ==
  /\ pipe.pc = "idle"
  /\ pipe' = Report([IdlePipe EXCEPT !.image = img,
                                     !.currentProgress = Pct(20),
                                     !.currentFile = OrigFile(img),
                                     !.pc = AfterStage(0, img)],
                    Pct(10), "processImage")
  /\ UNCHANGED <<ai, qvars, cvars>>

PEnhanceNoCatch(ok, conv) ==
  /\ pipe.pc = "enhance"
  /\ LET p0 == BeginStage(pipe, "enhance", pipe.currentFile)
         url == enhanceImage(pipe.currentFile, pipe.image)
         p1 == [EndStage(p0, url, conv) EXCEPT
                  !.intermediateUrl = url, !.pngUrl = url, !.pngSize = url,
                  !.live = @ \cup {url},
                  !.currentFile = IF conv THEN url ELSE @,
                  !.currentProgress = @ + progressPerStep(pipe.image),
                  !.pc = AfterStage(1, pipe.image)]
     IN pipe' = IF ok /\ conv THEN Report(p1, p1.currentProgress, "enhance")
                ELSE IF ok THEN Throw(p1, "other")
                ELSE Throw(p0, "other")
  /\ (~ ok => conv)
  /\ UNCHANGED <<ai, qvars, cvars>>
\* step 1: `await enhanceImage(currentFile, ...)` settles, then the fetch that
\* turns the result into a File
PEnhance(ok, conv) ==
  /\ pipe.pc = "enhance"
  /\ LET p0 == BeginStage(pipe, "enhance", pipe.currentFile)
         url == enhanceImage(pipe.currentFile, pipe.image)
         p1 == [EndStage(p0, url, conv) EXCEPT
                  !.intermediateUrl = url, !.pngUrl = url, !.pngSize = url,
                  !.live = @ \cup {url},
                  !.currentFile = IF conv THEN url ELSE @,
                  !.currentProgress = @ + progressPerStep(pipe.image),
                  !.pc = AfterStage(1, pipe.image)]
     IN pipe' = IF ok THEN Report(p1, p1.currentProgress, "enhance")
                ELSE Throw(p0, "other")
  /\ (~ ok => conv)
  /\ UNCHANGED <<ai, qvars, cvars>>

\* ------------------------------------------------- the upscaling module
DEFAULT_SCALE == 2
SupportedScales == {2, 3, 4}

normalizeScaleUnchecked(scale) == scale
\* normalizeScale(scale): MODEL_MAP[scale] ? scale : DEFAULT_SCALE
normalizeScale(scale) == IF scale \in SupportedScales THEN scale ELSE DEFAULT_SCALE

\* the module's variables, tf's backend, and `events`: what the latest call of
\* getUpscaler did to Upscaler instances, in the order it did it
InitAi(tfb) ==
  [upscalerInstance |-> 0, currentScale |-> 0, desiredBackend |-> "webgl",
   currentBackend |-> "none", backendReady |-> FALSE, tfBackend |-> tfb,
   events |-> <<>>]

\* ensureBackend(); res is what tf.setBackend / tf.ready do:
\*   "ok": the backend asked for is set up
\*   "refused": setBackend resolves false, the backend stays what it was
\*   "throws": setBackend / ready reject; the cpu backend then comes up
\*   "throwsBoth": they reject again for the cpu backend
\* The result is <<module state, whether ensureBackend returned normally>>.
ensureBackend(a, res) ==
  IF a.backendReady /\ a.currentBackend = a.desiredBackend /\ a.tfBackend = a.desiredBackend
  THEN <<a, TRUE>>
  ELSE CASE res = "ok" ->
              <<[a EXCEPT !.tfBackend = a.desiredBackend, !.backendReady = TRUE,
                          !.currentBackend = a.desiredBackend], TRUE>>
         [] res = "refused" ->
              <<[a EXCEPT !.backendReady = TRUE,
                          !.currentBackend = IF a.tfBackend = "webgl" THEN "webgl" ELSE "cpu"], TRUE>>
         [] res = "throws" ->
              IF a.desiredBackend = "webgl"
              THEN <<[a EXCEPT !.desiredBackend = "cpu", !.tfBackend = "cpu",
                               !.backendReady = TRUE, !.currentBackend = "cpu"], TRUE>>
              ELSE <<a, FALSE>>
         [] OTHER ->
              IF a.desiredBackend = "webgl"
              THEN <<[a EXCEPT !.desiredBackend = "cpu"], FALSE>>
              ELSE <<a, FALSE>>

\* getUpscaler(scale); the result is <<module state, returned normally>>.
\* An instance is named by the scale of its model.
NeedsInitAlways(a, scale) == TRUE
NeedsInit(a, scale) == a.upscalerInstance = 0 \/ a.currentScale # scale
UpscalerEvent(op, inst) == [op |-> op, inst |-> inst]
getUpscaler(a, scale, res) ==
  IF NeedsInit(a, scale)
  THEN LET e == ensureBackend(a, res)
           disposed == IF a.upscalerInstance # 0
                       THEN <<UpscalerEvent("dispose", a.upscalerInstance)>> ELSE <<>>
       IN IF e[2]
          THEN <<[e[1] EXCEPT !.upscalerInstance = scale, !.currentScale = scale,
                              !.events = disposed \o <<UpscalerEvent("new", scale)>>], TRUE>>
          ELSE <<[e[1] EXCEPT !.events = <<>>], FALSE>>
  ELSE <<[a EXCEPT !.events = <<>>], TRUE>>

\* resetUpscaler()
resetUpscalerKeepsScale(a) == [a EXCEPT !.upscalerInstance = 0]
resetUpscaler(a) == [a EXCEPT !.upscalerInstance = 0, !.currentScale = 0]

\* degradeToCPU()
degradeToCPU(a) == resetUpscaler([a EXCEPT !.desiredBackend = "cpu", !.backendReady = FALSE])

\* resetAIBackend(); tf keeps the name of its backend
resetAIBackend(a) ==
  resetUpscaler([a EXCEPT !.desiredBackend = "webgl", !.backendReady = FALSE,
                          !.currentBackend = "none"])

\* what aiUpscale is called with: the File and the scale
AiInputOriginal(p) == OrigFile(p.image)
AiInput(p) == p.currentFile

targetScale(p) == normalizeScale(p.image.options.upscaleFactor)

AiCatchSwallow(p, a, webgl, confirmed) == <<[p EXCEPT !.pc = AfterStage(2, p.image)], a>>

\* the condition under which the catch block of performUpscale asks the user
Prompted(p, a, webgl) == p.allowFallback /\ webgl /\ a.currentBackend # "cpu"

\* an error arriving in the catch block of performUpscale: its class, the
\* backend variables at that moment, and the answer to window.confirm if
\* the user is asked
Caught(p, a, webgl, confirmed) ==
  [p EXCEPT !.caught = Append(@,
     [webgl |-> webgl, allowFallback |-> p.allowFallback,
      backend |-> a.currentBackend, desired |-> a.desiredBackend,
      answer |-> IF Prompted(p, a, webgl)
                 THEN (IF confirmed THEN "yes" ELSE "no") ELSE "none"])]

AiCatchRetriesAgain(p, a, webgl, confirmed) ==
  IF Prompted(p, a, webgl)
  THEN IF ~ confirmed
       THEN <<Throw(Caught(p, a, webgl, confirmed), "userAborted"), a>>
       ELSE <<[AiReport(AiReport(Caught(p, a, webgl, confirmed), 10), 10) EXCEPT
                 !.pc = "aiInit"],
              degradeToCPU(a)>>
  ELSE <<Throw(Caught(p, a, webgl, confirmed), "skip"), a>>
AiCatchDeclineSkips(p, a, webgl, confirmed) ==
  IF Prompted(p, a, webgl) /\ confirmed
  THEN <<[AiReport(AiReport(Caught(p, a, webgl, confirmed), 10), 10) EXCEPT
            !.allowFallback = FALSE, !.pc = "aiInit"],
         degradeToCPU(a)>>
  ELSE <<Throw(Caught(p, a, webgl, confirmed), "skip"), a>>
\* the catch block of performUpscale; webgl: isWebGLError(error),
\* confirmed: the user's answer to window.confirm.
\* The result is <<pipe, ai>>.
AiCatch(p, a, webgl, confirmed) ==
  IF Prompted(p, a, webgl)
  THEN IF ~ confirmed
       THEN <<Throw(Caught(p, a, webgl, confirmed), "userAborted"), a>>
       ELSE <<[AiReport(AiReport(Caught(p, a, webgl, confirmed), 10), 10) EXCEPT
                 !.allowFallback = FALSE, !.pc = "aiInit"],
              degradeToCPU(a)>>
  ELSE <<Throw(Caught(p, a, webgl, confirmed), "skip"), a>>

\* step 2: `await loadAIModule()` settles; aiUpscale and performUpscale run up
\* to `await getUpscaler(...)`
PAiLoad(ok) ==
  /\ pipe.pc = "aiLoad"
  /\ pipe' = IF ok
             THEN [AiReport(BeginStage(pipe, "aiUpscale", AiInput(pipe)), 10) EXCEPT
                     !.allowFallback = TRUE, !.pc = "aiInit"]
             ELSE Throw(pipe, "other")
  /\ UNCHANGED <<ai, qvars, cvars>>

\* `await getUpscaler(targetScale)` settles; webgl and confirmed matter only
\* when it fails, res only when a backend has to be set up
PAiInit(res, webgl, confirmed) ==
  /\ pipe.pc = "aiInit"
  /\ LET g == getUpscaler(ai, targetScale(pipe), res)
         c == AiCatch(pipe, g[1], webgl, confirmed)
     IN IF g[2]
        THEN /\ pipe' = [AiReport(pipe, 20) EXCEPT !.pc = "aiLoadImg"]
             /\ ai' = g[1]
             /\ webgl /\ confirmed
        ELSE /\ pipe' = c[1]
             /\ ai' = c[2]
             /\ (~ (pipe.allowFallback /\ webgl /\ g[1].currentBackend # "cpu") => confirmed)
  /\ (~ NeedsInit(ai, targetScale(pipe)) \/ ensureBackend(ai, "throwsBoth")[2]) => res = "ok"
  /\ UNCHANGED <<qvars, cvars>>

\* `await loadImage(imageFile)` settles
PAiLoadImage(ok) ==
  /\ pipe.pc = "aiLoadImg"
  /\ LET c == AiCatch(pipe, ai, FALSE, TRUE)
     IN IF ok
        THEN /\ pipe' = [AiReport(pipe, 30) EXCEPT !.pc = "aiUpscale"]
             /\ UNCHANGED <<ai, qvars, cvars>>
        ELSE /\ pipe' = c[1]
             /\ ai' = c[2]
  /\ UNCHANGED <<qvars, cvars>>

\* `await upscaler.upscale(...)` settles; on success performUpscale and aiUpscale
\* return and step 2 of processWithPipeline goes on to its end
PAiUpscale(ok, webgl, confirmed, conv) ==
  /\ pipe.pc = "aiUpscale"
  /\ LET c == AiCatch(pipe, ai, webgl, confirmed)
         url == Blob("ai", 0)
         p1 == [EndStage(AiReport(pipe, 100), url, conv) EXCEPT
                  !.intermediateUrl = url, !.pngUrl = url,
                  !.live = @ \cup {url},
                  !.pngSize = IF conv THEN url ELSE @,
                  !.currentFile = IF conv THEN url ELSE @,
                  !.currentProgress = @ + progressPerStep(pipe.image),
                  !.pc = AfterStage(2, pipe.image)]
     IN IF ok
        THEN /\ pipe' = Report(p1, p1.currentProgress, "aiUpscale")
             /\ UNCHANGED <<ai, qvars, cvars>>
             /\ webgl /\ confirmed
        ELSE /\ pipe' = c[1]
             /\ ai' = c[2]
             /\ conv
             /\ (~ (pipe.allowFallback /\ webgl /\ ai.currentBackend # "cpu") => confirmed)
  /\ UNCHANGED <<qvars, cvars>>

PVectorizeRethrows(ok) ==
  /\ pipe.pc = "vectorize"
  /\ LET url == Blob("svg", 0)
         p0 == BeginStage(pipe, "vectorize", pipe.currentFile)
         p1 == [EndStage(p0, url, FALSE) EXCEPT
                  !.svgUrl = url, !.live = @ \cup {url},
                  !.currentProgress = @ + progressPerStep(pipe.image), !.pc = "post"]
     IN pipe' = IF ok THEN Report(p1, p1.currentProgress, "vectorize") ELSE Throw(p0, "other")
  /\ UNCHANGED <<ai, qvars, cvars>>
\* step 3: `await vectorizeImage(currentFile, ...)` settles
PVectorize(ok) ==
  /\ pipe.pc = "vectorize"
  /\ LET url == Blob("svg", 0)
         p0 == BeginStage(pipe, "vectorize", pipe.currentFile)
         p1 == IF ok
               THEN [EndStage(p0, url, FALSE) EXCEPT !.svgUrl = url, !.live = @ \cup {url}]
               ELSE p0
         p2 == [p1 EXCEPT !.currentProgress = @ + progressPerStep(pipe.image), !.pc = "post"]
     IN pipe' = Report(p2, p2.currentProgress, "vectorize")
  /\ UNCHANGED <<ai, qvars, cvars>>

PPostAlwaysFallback ==
  /\ pipe.pc = "post"
  /\ pipe' = [pipe EXCEPT !.pc = IF wantsPNG(pipe.image) THEN "fallback" ELSE "check"]
  /\ UNCHANGED <<ai, qvars, cvars>>
\* after the stages: the default enhancement when nothing was enabled
PPost ==
  /\ pipe.pc = "post"
  /\ pipe' = [pipe EXCEPT !.pc = IF enabledSteps(pipe.image) = 0 /\ wantsPNG(pipe.image)
                                 THEN "fallback" ELSE "check"]
  /\ UNCHANGED <<ai, qvars, cvars>>

\* `await enhanceImage(image.file, ...)` of the default enhancement settles
PFallback(ok) ==
  /\ pipe.pc = "fallback"
  /\ LET p0 == BeginStage(pipe, "enhance", OrigFile(pipe.image))
         url == enhanceImage(OrigFile(pipe.image), pipe.image)
     IN pipe' = IF ok
                THEN [EndStage(p0, url, FALSE) EXCEPT
                        !.pngUrl = url, !.pngSize = url, !.live = @ \cup {url}, !.pc = "check"]
                ELSE Throw(p0, "other")
  /\ UNCHANGED <<ai, qvars, cvars>>

\* the check for a missing PNG, and whether the resolution record is written
PCheck ==
  /\ pipe.pc = "check"
  /\ pipe' = IF pipe.pngUrl = NoUrl /\ wantsPNG(pipe.image)
             THEN Throw(pipe, "skip")
             ELSE [pipe EXCEPT !.pc = IF pipe.pngUrl # NoUrl /\ wantsPNG(pipe.image)
                                         /\ pipe.image.options.dpi # 0
                                      THEN "dpi" ELSE "finish"]
  /\ UNCHANGED <<ai, qvars, cvars>>

PDpiNoRelease(ok) ==
  /\ pipe.pc = "dpi"
  /\ LET p0 == BeginStage(pipe, "addDPIMetadata", pipe.pngUrl)
         url == Blob(pipe.pngUrl.k, pipe.pngUrl.phys + 1)
     IN pipe' = IF ok
                THEN [EndStage(p0, url, FALSE) EXCEPT
                        !.pngUrl = url, !.pngSize = url,
                        !.live = @ \cup {url}, !.pc = "finish"]
                ELSE [p0 EXCEPT !.pc = "finish"]
  /\ UNCHANGED <<ai, qvars, cvars>>
\* fetch(pngUrl), addDPIMetadata, revoke and replace; a failure is caught
PDpi(ok) ==
  /\ pipe.pc = "dpi"
  /\ LET p0 == BeginStage(pipe, "addDPIMetadata", pipe.pngUrl)
         url == Blob(pipe.pngUrl.k, pipe.pngUrl.phys + 1)
     IN pipe' = IF ok
                THEN [EndStage(p0, url, FALSE) EXCEPT
                        !.pngUrl = url, !.pngSize = url,
                        !.live = (@ \ {pipe.pngUrl}) \cup {url}, !.pc = "finish"]
                ELSE [p0 EXCEPT !.pc = "finish"]
  /\ UNCHANGED <<ai, qvars, cvars>>

PFinishNoFilter ==
  /\ pipe.pc = "finish"
  /\ LET p0 == Report(pipe, Pct(100), "final")
     IN pipe' = IF p0.svgUrl = NoUrl /\ p0.pngUrl = NoUrl
                THEN Throw(p0, "skip")
                ELSE [p0 EXCEPT !.pc = "returned", !.outcome = [kind |-> "result", mark |-> ""]]
  /\ UNCHANGED <<ai, qvars, cvars>>
\* onProgress(100), the release of outputs that are not wanted, and the result
PFinish ==
  /\ pipe.pc = "finish"
  /\ LET p0 == Report(pipe, Pct(100), "final")
         p1 == IF ~ wantsSVG(pipe.image) /\ p0.svgUrl # NoUrl
               THEN [p0 EXCEPT !.live = @ \ {p0.svgUrl}, !.svgUrl = NoUrl] ELSE p0
         p2 == IF ~ wantsPNG(pipe.image) /\ p1.pngUrl # NoUrl
               THEN [p1 EXCEPT !.live = @ \ {p1.pngUrl}, !.pngUrl = NoUrl, !.pngSize = NoUrl]
               ELSE p1
     IN pipe' = IF p2.svgUrl = NoUrl /\ p2.pngUrl = NoUrl
                THEN Throw(p2, "skip")
                ELSE [p2 EXCEPT !.pc = "returned", !.outcome = [kind |-> "result", mark |-> ""]]
  /\ UNCHANGED <<ai, qvars, cvars>>

\* the call is over; the next image can be processed
PDone ==
  /\ pipe.pc \in {"returned", "thrown"}
  /\ pipe' = IdlePipe
  /\ UNCHANGED <<ai, qvars, cvars>>

\* no call under way; the upscaling module as loaded, no backend set up yet
PInit ==
  /\ pipe = IdlePipe
  /\ ai = InitAi("none")

PNext ==
  \/ \E img \in ImageSpace : PBegin(img)
  \/ \E ok, conv \in BOOLEAN : PEnhance(ok, conv)
  \/ \E ok \in BOOLEAN : PAiLoad(ok)
  \/ \E res \in {"ok", "refused", "throws", "throwsBoth"} : \E webgl, confirmed \in BOOLEAN :
       PAiInit(res, webgl, confirmed)
  \/ \E ok \in BOOLEAN : PAiLoadImage(ok)
  \/ \E ok, webgl, confirmed, conv \in BOOLEAN : PAiUpscale(ok, webgl, confirmed, conv)
  \/ \E ok \in BOOLEAN : PVectorize(ok)
  \/ PPost
  \/ \E ok \in BOOLEAN : PFallback(ok)
  \/ PCheck
  \/ \E ok \in BOOLEAN : PDpi(ok)
  \/ PFinish
  \/ PDone

\* ------------------------------------------- resolution metadata (bytes)
\* A buffer (Uint8Array) is a sequence of bytes; view[i] of the code is
\* At(view, i), which is Undefined outside the buffer.
Undefined == -1
At(view, i) == IF i >= 0 /\ i < Len(view) THEN view[i + 1] ELSE Undefined

\* what the bit operators and String.fromCharCode make of undefined
Num(b) == IF b = Undefined THEN 0 ELSE b

Min(a, b) == IF a < b THEN a ELSE b

\* view.slice(a, b) for 0 <= a, 0 <= b
Slice(view, a, b) ==
  LET lo == Min(a, Len(view))
      hi == Min(b, Len(view))
  IN SubSeq(view, lo + 1, hi)

\* (b0 << 24) | (b1 << 16) | (b2 << 8) | b3: a signed 32-bit integer
Int32BE(b0, b1, b2, b3) ==
  ((IF Num(b0) >= 128 THEN Num(b0) - 256 ELSE Num(b0)) * 16777216)
    + (Num(b1) * 65536) + (Num(b2) * 256) + Num(b3)

\* (b0 << 8) | b1
Int16BE(b0, b1) == (Num(b0) * 256) + Num(b1)

\* DataView.setUint32(_, n, false) and setUint16(_, n, false): big-endian,
\* n taken modulo 2^32 and 2^16
Uint32Bytes(n) ==
  << (n \div 16777216) % 256, (n \div 65536) % 256, (n \div 256) % 256, n % 256 >>
Uint16Bytes(n) == << (n \div 256) % 256, n % 256 >>

\* a ^ b on the low n bits
RECURSIVE XorBits(_, _, _)
XorBits(a, b, n) ==
  IF n = 0 THEN 0
  ELSE (((a % 2) + (b % 2)) % 2) + (2 * XorBits(a \div 2, b \div 2, n - 1))

\* a 32-bit word is kept as its four bytes, most significant first
Xor32(x, y) ==
  << XorBits(x[1], y[1], 8), XorBits(x[2], y[2], 8),
     XorBits(x[3], y[3], 8), XorBits(x[4], y[4], 8) >>
Shr1(x) ==
  << x[1] \div 2, ((x[1] % 2) * 128) + (x[2] \div 2),
     ((x[2] % 2) * 128) + (x[3] \div 2), ((x[3] % 2) * 128) + (x[4] \div 2) >>

\* 0xEDB88320 and 0xFFFFFFFF
CrcPolynomial == <<237, 184, 131, 32>>
AllOnes == <<255, 255, 255, 255>>

\* crc = (crc >>> 1) ^ (0xEDB88320 & -(crc & 1)), n times
RECURSIVE CrcShift(_, _)
CrcShift(crc, n) ==
  IF n = 0 THEN crc
  ELSE IF crc[4] % 2 = 1 THEN CrcShift(Xor32(Shr1(crc), CrcPolynomial), n - 1)
  ELSE CrcShift(Shr1(crc), n - 1)

\* the loop over data[i] of calculateCRC, from index i (1-based) on; the
\* test of Len(crc) has the word computed before the next round is entered
RECURSIVE CrcLoop(_, _, _)
CrcLoop(crc, data, i) ==
  IF i > Len(data) \/ Len(crc) # 4 THEN crc
  ELSE CrcLoop(CrcShift(Xor32(crc, <<0, 0, 0, data[i]>>), 8), data, i + 1)

\* A number that needs 32 bits is kept as two halves: it is hi * 65536 + lo
\* with lo in 0..65535. The bit operators of JavaScript leave a signed number
\* (hi in -32768..32767); x >>> 0 is the unsigned number of the same word.
SignedNumber(w) ==
  [hi |-> (IF w[1] >= 128 THEN w[1] - 256 ELSE w[1]) * 256 + w[2], lo |-> (w[3] * 256) + w[4]]
UnsignedShift0(w) == [hi |-> (w[1] * 256) + w[2], lo |-> (w[3] * 256) + w[4]]

\* DataView.setUint32(_, n, false) of such a number
SetUint32(n) == << (n.hi \div 256) % 256, n.hi % 256, (n.lo \div 256) % 256, n.lo % 256 >>

calculateCRCSigned(data) == SignedNumber(Xor32(CrcLoop(AllOnes, data, 1), AllOnes))
\* calculateCRC(data): (crc ^ 0xFFFFFFFF) >>> 0
calculateCRC(data) == UnsignedShift0(Xor32(CrcLoop(AllOnes, data, 1), AllOnes))

createPHYsChunkUnitless(x, y) ==
  LET chunk17 == Uint32Bytes(9) \o <<112, 72, 89, 115>> \o Uint32Bytes(x)
                   \o Uint32Bytes(y) \o <<0>>
  IN chunk17 \o SetUint32(calculateCRC(Slice(chunk17, 4, 17)))
\* createPHYsChunk(xPixelsPerMeter, yPixelsPerMeter)
createPHYsChunk(x, y) ==
  LET chunk17 == Uint32Bytes(9) \o <<112, 72, 89, 115>> \o Uint32Bytes(x)
                   \o Uint32Bytes(y) \o <<1>>
  IN chunk17 \o SetUint32(calculateCRC(Slice(chunk17, 4, 17)))

pngSignature == <<137, 80, 78, 71, 13, 10, 26, 10>>

\* 8 + 4 + 4 + 13 + 4
ihdrEnd == 33

\* Math.round(dpi * 39.3701)
pixelsPerMeter(dpi) == ((2 * dpi * 393701) + 10000) \div 20000

\* Math.round(ppm / 39.3701); the division is done in steps that stay
\* within 32 bits
DpiOfPixelsPerMeter(ppm) ==
  LET q1 == ppm \div 393701
      r1 == ppm % 393701
      q2 == (r1 * 100) \div 393701
      r2 == (r1 * 100) % 393701
  IN (q1 * 10000) + (q2 * 100) + (((2 * r2 * 100) + 393701) \div (2 * 393701))

\* the outcome of a write: how it ended and the bytes of the Blob it returned
Written(out) == [error |-> "none", out |-> out]
Failed(error) == [error |-> error, out |-> <<>>]

addDPIMetadataBeforeIEND(view, dpi) ==
  IF \E i \in 0..7 : At(view, i) # pngSignature[i + 1]
  THEN Failed("invalidFormat")
  ELSE LET physChunk == createPHYsChunk(pixelsPerMeter(dpi), pixelsPerMeter(dpi))
       IN IF Len(view) < ihdrEnd + 12
          THEN Failed("rangeError")
          ELSE Written(Slice(view, 0, Len(view) - 12) \o physChunk
                         \o Slice(view, Len(view) - 12, Len(view)))
addDPIMetadataUnchecked(view, dpi) ==
  LET physChunk == createPHYsChunk(pixelsPerMeter(dpi), pixelsPerMeter(dpi))
  IN IF ihdrEnd + Len(physChunk) > Len(view) + Len(physChunk)
     THEN Failed("rangeError")
     ELSE Written(Slice(view, 0, ihdrEnd) \o physChunk \o Slice(view, ihdrEnd, Len(view)))
\* addDPIMetadata(blob, dpi); "rangeError" is Uint8Array.set rejecting an
\* offset outside the result
addDPIMetadata(view, dpi) ==
  IF \E i \in 0..7 : At(view, i) # pngSignature[i + 1]
  THEN Failed("invalidFormat")
  ELSE LET physChunk == createPHYsChunk(pixelsPerMeter(dpi), pixelsPerMeter(dpi))
       IN IF ihdrEnd + Len(physChunk) > Len(view) + Len(physChunk)
          THEN Failed("rangeError")
          ELSE Written(Slice(view, 0, ihdrEnd) \o physChunk \o Slice(view, ihdrEnd, Len(view)))

\* what a reader returns: a number, or null; NoReturn: it never returns
DpiRead(n) == [kind |-> "dpi", dpi |-> n]
NoDpi == [kind |-> "null", dpi |-> 0]
NoReturn == [kind |-> "loops", dpi |-> 0]

\* the chunk scan shared by readImageDPI and readPNGDPI, at `offset`; seen
\* holds the offsets the loop has been at, and coming to one of them again
\* means that the loop does not end. The result is DpiRead(dpi), NoDpi (null) or NoReturn.
RECURSIVE PngChunkScan(_, _, _)
PngChunkScan(view, offset, seen) ==
  IF ~ (offset < Len(view) - 12) THEN NoDpi
  ELSE IF offset \in seen THEN NoReturn
  \* every byte read is undefined: chunkLength is 0, chunkType is four NULs,
  \* and the loop adds 12 until view[offset + 16] is near the buffer
  ELSE IF offset < -28 THEN PngChunkScan(view, offset + (12 * ((-17 - offset) \div 12)), seen)
  ELSE LET chunkLength == Int32BE(At(view, offset), At(view, offset + 1),
                                  At(view, offset + 2), At(view, offset + 3))
           chunkType == << Num(At(view, offset + 4)), Num(At(view, offset + 5)),
                           Num(At(view, offset + 6)), Num(At(view, offset + 7)) >>
           pixelsPerMeterX == Int32BE(At(view, offset + 8), At(view, offset + 9),
                                      At(view, offset + 10), At(view, offset + 11))
           unit == At(view, offset + 16)
       IN IF chunkType = <<112, 72, 89, 115>> /\ unit = 1
          THEN DpiRead(DpiOfPixelsPerMeter(pixelsPerMeterX))
          ELSE IF chunkType = <<73, 69, 78, 68>> THEN NoDpi
          \* offset + 12 + chunkLength is then past the end of the buffer
          ELSE IF chunkLength >= Len(view) THEN NoDpi
          ELSE PngChunkScan(view, offset + 12 + chunkLength, seen \cup {offset})

\* readPNGDPI(pngUrl) of the results panel, on the bytes fetched
readPNGDPI(view) ==
  IF At(view, 0) # 137 \/ At(view, 1) # 80 \/ At(view, 2) # 78 \/ At(view, 3) # 71
  THEN NoDpi
  ELSE PngChunkScan(view, 8, {})

\* the scan for APP0 of readImageDPI, at `offset`
RECURSIVE JpegDensityScan(_, _)
JpegDensityScan(view, offset) ==
  IF ~ (offset < Len(view) - 1) THEN NoDpi
  ELSE IF At(view, offset) = 255 /\ At(view, offset + 1) = 224
  THEN IF /\ << Num(At(view, offset + 4)), Num(At(view, offset + 5)), Num(At(view, offset + 6)),
                Num(At(view, offset + 7)), Num(At(view, offset + 8)) >> = <<74, 70, 73, 70, 0>>
          /\ At(view, offset + 11) = 1
       THEN DpiRead(Int16BE(At(view, offset + 12), At(view, offset + 13)))
       ELSE NoDpi
  ELSE JpegDensityScan(view, offset + 1)

\* readImageDPI(file), on the file's bytes
readImageDPI(view) ==
  IF At(view, 0) = 137 /\ At(view, 1) = 80 /\ At(view, 2) = 78 /\ At(view, 3) = 71
  THEN PngChunkScan(view, 8, {})
  ELSE IF At(view, 0) = 255 /\ At(view, 1) = 216
  THEN JpegDensityScan(view, 2)
  ELSE NoDpi

\* createJFIFSegment(dpi)
createJFIFSegment(dpi) ==
  <<255, 224>> \o Uint16Bytes(16) \o <<74, 70, 73, 70, 0>> \o <<1, 1>> \o <<1>>
    \o Uint16Bytes(dpi) \o Uint16Bytes(dpi) \o <<0, 0>>

\* the search for a JFIF APP0 segment in addJPEGDPIMetadata, at `offset`:
\* jfifOffset, or -1 when hasJFIF stays false
RECURSIVE JfifScan(_, _)
JfifScan(view, offset) ==
  IF ~ (offset < Len(view) - 1) THEN -1
  ELSE IF At(view, offset) = 255
  THEN LET marker == At(view, offset + 1)
           identifier == << Num(At(view, offset + 4)), Num(At(view, offset + 5)),
                            Num(At(view, offset + 6)), Num(At(view, offset + 7)),
                            Num(At(view, offset + 8)) >>
       IN IF marker = 224 /\ identifier = <<74, 70, 73, 70, 0>> THEN offset
          ELSE IF marker >= 208 /\ marker <= 217 THEN JfifScan(view, offset + 2)
          ELSE IF marker # 0 /\ marker # 255
          THEN JfifScan(view, offset + 2 + Int16BE(At(view, offset + 2), At(view, offset + 3)))
          ELSE JfifScan(view, offset + 2)
  ELSE JfifScan(view, offset + 1)

addJPEGDPIMetadataInsertOnly(view, dpi) ==
  IF At(view, 0) # 255 \/ At(view, 1) # 216
  THEN Failed("invalidFormat")
  ELSE Written(Slice(view, 0, 2) \o createJFIFSegment(dpi) \o Slice(view, 2, Len(view)))
addJPEGDPIMetadataFixedLength(view, dpi) ==
  IF At(view, 0) # 255 \/ At(view, 1) # 216
  THEN Failed("invalidFormat")
  ELSE LET jfifOffset == JfifScan(view, 2)
           jfifSegment == createJFIFSegment(dpi)
       IN IF jfifOffset >= 0
          THEN IF jfifOffset + Len(jfifSegment) > Len(view)
               THEN Failed("rangeError")
               ELSE Written(Slice(view, 0, jfifOffset) \o jfifSegment
                              \o Slice(view, jfifOffset + Len(jfifSegment), Len(view)))
          ELSE Written(Slice(view, 0, 2) \o jfifSegment \o Slice(view, 2, Len(view)))
\* addJPEGDPIMetadata(blob, dpi); "rangeError" is Uint8Array.set rejecting an
\* offset outside the result
addJPEGDPIMetadata(view, dpi) ==
  IF At(view, 0) # 255 \/ At(view, 1) # 216
  THEN Failed("invalidFormat")
  ELSE LET jfifOffset == JfifScan(view, 2)
           jfifSegment == createJFIFSegment(dpi)
           oldSegmentLength == Int16BE(At(view, jfifOffset + 2), At(view, jfifOffset + 3))
       IN IF jfifOffset >= 0
          THEN IF jfifOffset + 2 + oldSegmentLength > Len(view)
               THEN Failed("rangeError")
               ELSE Written(Slice(view, 0, jfifOffset) \o jfifSegment
                              \o Slice(view, jfifOffset + 2 + oldSegmentLength, Len(view)))
          ELSE Written(Slice(view, 0, 2) \o jfifSegment \o Slice(view, 2, Len(view)))

\* ---- the files the functions are given
\* a PNG chunk: length, type, data, CRC
PngChunk(type, data) ==
  Uint32Bytes(Len(data)) \o type \o data \o SetUint32(calculateCRC(type \o data))

\* a pHYs chunk as another encoder leaves it: x, y and the unit of its choice
PhysChunk(x, y, unit) ==
  PngChunk(<<112, 72, 89, 115>>, Uint32Bytes(x) \o Uint32Bytes(y) \o <<unit>>)

\* PNG files: signature, IHDR (1 x 1, 8-bit RGBA), IDAT, IEND, with or
\* without a gAMA chunk, and with no pHYs chunk, one of 96 dpi (3780 pixels
\* per metre) or one that gives an aspect ratio only (unit 0)
PngFiles ==
  LET IHDR == PngChunk(<<73, 72, 68, 82>>, <<0, 0, 0, 1, 0, 0, 0, 1, 8, 6, 0, 0, 0>>)
      gAMA == PngChunk(<<103, 65, 77, 65>>, <<0, 0, 177, 143>>)
      IDAT == PngChunk(<<73, 68, 65, 84>>, <<120, 156, 99, 0, 1>>)
      IEND == PngChunk(<<73, 69, 78, 68>>, <<>>)
  IN { pngSignature \o IHDR \o g \o p \o IDAT \o IEND :
         g \in {<<>>, gAMA},
         p \in {<<>>, PhysChunk(3780, 3780, 1), PhysChunk(4, 3, 0)} }

\* a JPEG segment: marker, length (which counts its own two bytes), payload
JpegSegment(marker, payload) == <<255, marker>> \o Uint16Bytes(Len(payload) + 2) \o payload

\* JPEG files: SOI, segments, entropy-coded data with a stuffed 0xFF and a
\* restart marker, EOI; with or without an Exif APP1 segment in front, and
\* with no JFIF segment, a plain one of 96 dpi, one with a 1 x 1 thumbnail,
\* or one that gives an aspect ratio only (unit 0)
JpegFiles ==
  LET APP1 == JpegSegment(225, <<69, 120, 105, 102, 0, 0>>)
      JFIF(unit, x, thumb) ==
        JpegSegment(224, <<74, 70, 73, 70, 0, 1, 1, unit>> \o Uint16Bytes(x) \o Uint16Bytes(x)
                           \o thumb)
      DQT == JpegSegment(219, <<0, 16, 11>>)
      SOS == JpegSegment(218, <<1, 1, 0>>) \o <<18, 255, 0, 52, 255, 208, 7>>
  IN { <<255, 216>> \o a \o j \o DQT \o SOS \o <<255, 217>> :
         a \in {<<>>, APP1},
         j \in {<<>>, JFIF(1, 96, <<0, 0>>), JFIF(1, 96, <<1, 1, 9, 9, 9>>),
                JFIF(0, 1, <<0, 0>>)} }

\* buffers that are not PNG files: a PNG file with one byte of its signature
\* changed, a buffer that ends inside the signature, the empty buffer
NotPng ==
  LET png == CHOOSE f \in PngFiles : \A g \in PngFiles : Len(f) <= Len(g)
  IN { [png EXCEPT ![i] = 0] : i \in 1..8 } \cup { Slice(pngSignature, 0, 5), <<>> }

\* buffers that do not begin with SOI
NotJpeg ==
  LET jpeg == CHOOSE f \in JpegFiles : \A g \in JpegFiles : Len(f) <= Len(g)
  IN { [jpeg EXCEPT ![1] = 0], [jpeg EXCEPT ![2] = 217], <<255>> }

CodecDpis == {72, 150, 300, 600}

Unread == [kind |-> "unread", dpi |-> 0]

\* the finalization of processWithPipeline has not run
NotFinal == [done |-> FALSE, png |-> <<>>, pngSize |-> 0, caught |-> "none"]

CodecOn(kind, view) ==
  [kind |-> kind, bufs |-> <<view>>, dpis |-> <<>>, error |-> "none",
   readFile |-> Unread, readPanel |-> Unread, final |-> NotFinal]

\* the metadata functions are not in use
CodecIdle == codec = [kind |-> "none", bufs |-> <<>>, dpis |-> <<>>, error |-> "none",
                      readFile |-> Unread, readPanel |-> Unread, final |-> NotFinal]

\* ---- the arguments the checksum functions are given
\* every byte sequence of up to MaxBytes bytes over bytes with few, many,
\* low and high bits set; "123456789"; "IEND"; "pHYs" with 72 dpi, unit 1
CrcBytes == {0, 1, 49, 128, 170, 255}
RECURSIVE BytesUpTo(_)
BytesUpTo(n) ==
  IF n = 0 THEN {<<>>}
  ELSE LET shorter == BytesUpTo(n - 1)
       IN shorter \cup { Append(d, b) : d \in shorter, b \in CrcBytes }
CrcInputs ==
  BytesUpTo(MaxBytes)
    \cup { <<49, 50, 51, 52, 53, 54, 55, 56, 57>>, <<73, 69, 78, 68>>,
            <<112, 72, 89, 115, 0, 0, 11, 19, 0, 0, 11, 19, 1>> }

\* pixels per metre: what addDPIMetadata passes, and the ends of the range
\* of a 32-bit field that this model's integers reach
PhysArgs == { pixelsPerMeter(d) : d \in CodecDpis } \cup {0, 2147483647}

NoCall == [op |-> "none", call |-> "none", data |-> <<>>, out |-> <<>>]
CrcIdle == checksum = NoCall

\* one of the two functions is about to be called
CrcStart ==
  checksum \in { [NoCall EXCEPT !.call = "calculateCRC", !.data = d] : d \in CrcInputs }
            \cup { [NoCall EXCEPT !.call = "createPHYsChunk", !.data = <<x, y>>] :
                     x \in PhysArgs, y \in PhysArgs }

\* calculateCRC(data); out is the number returned
CCalculateCRC ==
  /\ checksum.op = "none" /\ checksum.call = "calculateCRC"
  /\ checksum' = [checksum EXCEPT !.op = "calculateCRC", !.out = <<calculateCRC(checksum.data)>>]
  /\ UNCHANGED <<qvars, pvars, codec, pixels, app>>

\* createPHYsChunk(x, y); out is the chunk returned
CCreatePHYsChunk ==
  /\ checksum.op = "none" /\ checksum.call = "createPHYsChunk"
  /\ checksum' = [checksum EXCEPT !.op = "createPHYsChunk",
                             !.out = createPHYsChunk(checksum.data[1], checksum.data[2])]
  /\ UNCHANGED <<qvars, pvars, codec, pixels, app>>

CrcNext ==
  \/ CCalculateCRC
  \/ CCreatePHYsChunk

\* no function of this section is in use
CIdle == CodecIdle /\ CrcIdle

\* a file is at hand for the PNG functions or for the JPEG writer
CStart ==
  /\ codec \in { CodecOn("png", v) : v \in PngFiles \cup NotPng \cup JpegFiles }
                 \cup { CodecOn("jpeg", v) : v \in JpegFiles \cup NotJpeg \cup PngFiles }
  /\ CrcIdle

\* ---- files whose chunk lengths are wrong
\* the four bytes of a length field: 0, 1, more than the buffer holds (4096,
\* 2^31 - 1), and with the top bit set (-2^31, -45, -24, -12, -1 as the
\* reader's 32-bit `|` makes them)
MalformedLengths ==
  { <<0, 0, 0, 0>>, <<0, 0, 0, 1>>, <<0, 0, 16, 0>>, <<127, 255, 255, 255>>,
    <<128, 0, 0, 0>>, <<255, 255, 255, 211>>, <<255, 255, 255, 232>>,
    <<255, 255, 255, 244>>, <<255, 255, 255, 255>> }

\* view with the four bytes from `offset` replaced
WithLength(view, offset, len) ==
  [i \in 1..Len(view) |-> IF i > offset /\ i <= offset + 4 THEN len[i - offset] ELSE view[i]]

\* PNG files with the length field of the first chunk (offset 8) or of the
\* second (offset 33) replaced
MalformedPng ==
  { WithLength(f, offset, len) : f \in PngFiles, offset \in {8, ihdrEnd}, len \in MalformedLengths }

\* a buffer that begins with the PNG signature is at hand for the readers
ScanStart ==
  /\ codec \in { CodecOn("png", v) : v \in PngFiles \cup MalformedPng }
  /\ CrcIdle

CurrentBuf == codec.bufs[Len(codec.bufs)]

\* the outcome r of a write on the current buffer
AfterWrite(r, dpi) ==
  IF r.error = "none"
  THEN [codec EXCEPT !.bufs = Append(@, r.out), !.dpis = Append(@, dpi),
                     !.readFile = Unread, !.readPanel = Unread]
  ELSE [codec EXCEPT !.error = r.error, !.dpis = Append(@, dpi)]

\* addDPIMetadata(blob, dpi) on the current buffer
CAddDPIMetadata(dpi) ==
  /\ codec.kind = "png" /\ codec.error = "none" /\ ~ codec.final.done
  /\ Len(codec.dpis) < MaxWrites
  /\ codec' = AfterWrite(addDPIMetadata(CurrentBuf, dpi), dpi)
  /\ UNCHANGED <<qvars, pvars, checksum, pixels, app>>

\* addJPEGDPIMetadata(blob, dpi) on the current buffer
CAddJPEGDPIMetadata(dpi) ==
  /\ codec.kind = "jpeg" /\ codec.error = "none"
  /\ Len(codec.dpis) < MaxWrites
  /\ codec' = AfterWrite(addJPEGDPIMetadata(CurrentBuf, dpi), dpi)
  /\ UNCHANGED <<qvars, pvars, checksum, pixels, app>>

\* readImageDPI(file) on the current buffer
CReadImageDPI ==
  /\ codec.kind # "none" /\ codec.error = "none"
  /\ codec.readFile = Unread
  /\ codec' = [codec EXCEPT !.readFile = readImageDPI(CurrentBuf)]
  /\ UNCHANGED <<qvars, pvars, checksum, pixels, app>>

\* readPNGDPI(url) on the current buffer
CReadPNGDPI ==
  /\ codec.kind # "none" /\ codec.error = "none"
  /\ codec.readPanel = Unread
  /\ codec' = [codec EXCEPT !.readPanel = readPNGDPI(CurrentBuf)]
  /\ UNCHANGED <<qvars, pvars, checksum, pixels, app>>

\* the finalization step of processWithPipeline with the file behind pngUrl:
\* fetch, addDPIMetadata, and pngUrl / pngSize replaced on success; an error
\* is caught, and pngUrl and pngSize stay
CDpiFinalization(dpi) ==
  /\ codec.kind = "png" /\ codec.error = "none"
  /\ ~ codec.final.done
  /\ LET blob == CurrentBuf
         r == addDPIMetadata(blob, dpi)
     IN codec' = [codec EXCEPT !.final =
                    IF r.error = "none"
                    THEN [done |-> TRUE, png |-> r.out, pngSize |-> Len(r.out), caught |-> "none"]
                    ELSE [done |-> TRUE, png |-> blob, pngSize |-> Len(blob), caught |-> r.error]]
  /\ UNCHANGED <<qvars, pvars, checksum, pixels, app>>

CNext ==
  \/ \E dpi \in CodecDpis : CAddDPIMetadata(dpi)
  \/ \E dpi \in CodecDpis : CDpiFinalization(dpi)
  \/ \E dpi \in CodecDpis : CAddJPEGDPIMetadata(dpi)
  \/ CReadImageDPI
  \/ CReadPNGDPI

\* the two readers, each applied once
ScanNext ==
  \/ CReadImageDPI
  \/ CReadPNGDPI

\* -------------------------------------------- the enhancement filter
\* Uint8ClampedArray's conversion of a number in 0..255 given as num / den:
\* to the nearest integer, a tie to the even one
ToUint8Clamp(num, den) ==
  LET q == num \div den
      r == num % den
  IN IF 2 * r < den THEN q
     ELSE IF 2 * r > den THEN q + 1
     ELSE IF q % 2 = 0 THEN q ELSE q + 1

\* Math.min(hi, Math.max(lo, v))
Clamp(lo, hi, v) == IF v < lo THEN lo ELSE IF v > hi THEN hi ELSE v

\* contrastStrength, in hundredths, and sharpenStrength, in tenths
contrastStrength(denoiseLevel) ==
  IF denoiseLevel = "light" THEN 115 ELSE IF denoiseLevel = "medium" THEN 125 ELSE 135
sharpenStrength(denoiseLevel) ==
  IF denoiseLevel = "light" THEN 3 ELSE IF denoiseLevel = "medium" THEN 5 ELSE 7

\* sharpened[i] = Math.min(255, Math.max(0, (v - 128) * contrastStrength + 128))
\* for a colour channel. The arithmetic is decimal; the double-precision
\* arithmetic of the code gives the same byte for every pixel value of
\* Palette below.
ContrastByte(v, denoiseLevel) ==
  ToUint8Clamp(Clamp(0, 25500, ((v - 128) * contrastStrength(denoiseLevel)) + 12800), 100)

\* data[idx + c] = Math.min(255, Math.max(0, center + sharpenStrength * (center * 4 - neighbors)))
SharpenByte(center, neighbors, denoiseLevel) ==
  ToUint8Clamp(Clamp(0, 2550, (10 * center)
                 + (sharpenStrength(denoiseLevel) * ((center * 4) - neighbors))), 10)

\* imageData.data after the two steps of applyEnhancement. Step 1 fills the
\* temporary array `sharpened` from data; step 2 writes data at the colour
\* channels of the interior pixels and nowhere else.
Enhanced(data, width, height, denoiseLevel) ==
  LET sharpened == [i \in 1..Len(data) |->
                      IF (i - 1) % 4 = 3 THEN data[i]
                      ELSE ContrastByte(data[i], denoiseLevel)]
      at(x, y, c) == sharpened[(((y * width) + x) * 4) + c + 1]
      byte(i, x, y, c) ==
        IF c < 3 /\ y >= 1 /\ y < height - 1 /\ x >= 1 /\ x < width - 1
        THEN SharpenByte(at(x, y, c),
                         at(x, y - 1, c) + at(x, y + 1, c) + at(x - 1, y, c) + at(x + 1, y, c),
                         denoiseLevel)
        ELSE data[i]
  IN [i \in 1..Len(data) |->
        byte(i, ((i - 1) \div 4) % width, ((i - 1) \div 4) \div width, (i - 1) % 4)]

applyEnhancementNoneAsLight(data, width, height, denoiseLevel) ==
  Enhanced(data, width, height, IF denoiseLevel = "none" THEN "light" ELSE denoiseLevel)
\* applyEnhancement(imageData, denoiseLevel): the bytes of imageData.data when
\* it returns
applyEnhancement(data, width, height, denoiseLevel) ==
  IF denoiseLevel = "none" THEN data
  ELSE Enhanced(data, width, height, denoiseLevel)

\* ---- the images the filter is given
DenoiseLevels == {"none", "light", "medium", "heavy"}

\* two colours (R, G, B, A): channels that the contrast step clamps at either
\* end and channels that it does not, an opaque and a translucent alpha
Palette == << <<20, 120, 250, 255>>, <<240, 100, 3, 64>> >>

\* the colour index at row y of a column of a given kind
ColumnKinds == 1..4
ColumnColour(kind, y) ==
  IF kind = 1 THEN 1
  ELSE IF kind = 2 THEN 1 + (y % 2)
  ELSE IF kind = 3 THEN 2 - (y % 2)
  ELSE IF y < 2 THEN 2 ELSE 1

Widths == 1..MaxWidth
Heights == {2, 3, 4}

\* the bytes of the image whose column x is of kind kinds[x + 1], row by row
ImageBytes(kinds, height) ==
  LET width == Len(kinds)
  IN [i \in 1..(width * height * 4) |->
        Palette[ColumnColour(kinds[(((i - 1) \div 4) % width) + 1], ((i - 1) \div 4) \div width)]
               [((i - 1) % 4) + 1]]

RECURSIVE KindsOfWidth(_)
KindsOfWidth(w) ==
  IF w = 0 THEN {<<>>}
  ELSE { Append(k, c) : k \in KindsOfWidth(w - 1), c \in ColumnKinds }

NoImage == [level |-> "none", width |-> 0, height |-> 0, data |-> <<>>,
            called |-> FALSE, out |-> <<>>]
EnhanceIdle == pixels = NoImage

\* getImageData has returned an image, and applyEnhancement is about to be
\* called with it
EnhanceStart ==
  pixels \in { [NoImage EXCEPT !.level = l, !.width = Len(k), !.height = h,
                               !.data = ImageBytes(k, h)] :
                 l \in DenoiseLevels, h \in Heights,
                 k \in UNION { KindsOfWidth(w) : w \in Widths } }

\* applyEnhancement(imageData, options.denoiseLevel)
CApplyEnhancement ==
  /\ pixels.width > 0 /\ ~ pixels.called
  /\ pixels' = [pixels EXCEPT !.called = TRUE,
                  !.out = applyEnhancement(pixels.data, pixels.width, pixels.height,
                                           pixels.level)]
  /\ UNCHANGED <<qvars, pvars, codec, checksum, app>>

EnhanceNext ==
  \/ CApplyEnhancement

\* ---------------------------------------------------- the App component
\* useState's initial values
NoStats == [total |-> 0, completed |-> 0, failed |-> 0, currentIndex |-> 0]
AppInit ==
  app = [view |-> "upload", stats |-> NoStats, batch |-> 0, terminals |-> 0,
         resetting |-> FALSE]

\* handleFilesSelected(files): the new images go to the end of the list
AFilesSelected(b) ==
  /\ app.view = "upload" /\ ~ app.resetting
  /\ Len(b) > Len(images) /\ SubSeq(b, 1, Len(images)) = images
  /\ images' = b
  /\ UNCHANGED <<queue, queueRef, isProcessing, currentIndex, runs, pvars,
                 codec, checksum, pixels, app>>

\* handleRemoveImage(id): the handler of the image list, which the upload
\* view shows; the handler itself does not look at the view
ARemoveImage(id) ==
  /\ \E k \in 1..Len(images) : images[k] = id
  /\ images' = SelectSeq(images, LAMBDA x : x # id)
  /\ UNCHANGED <<queue, queueRef, isProcessing, currentIndex, runs, pvars,
                 codec, checksum, pixels, app>>

\* handleStartProcessing(), the button of the image list: setStats, a new
\* ProcessingQueue, addImages(images), and start() up to its first await
AStartProcessing ==
  /\ app.view = "upload" /\ ~ app.resetting
  /\ Len(images) > 0
  /\ FreeSlots # {}
  /\ app' = [app EXCEPT !.view = "processing",
               !.stats = [NoStats EXCEPT !.total = Len(images)],
               !.batch = Len(images), !.terminals = 0]
  /\ queue' = images /\ queueRef' = SpreadCopy("caller")
  /\ isProcessing' = TRUE /\ currentIndex' = 0
  /\ LET r == CHOOSE f \in FreeSlots : \A g \in FreeSlots : f <= g
     IN runs' = [runs EXCEPT ![r] = [NewRun EXCEPT !.pc = "inflight", !.i = 0,
                                       !.image = images[1], !.started = {0}]]
  /\ UNCHANGED <<images, pvars, codec, checksum, pixels>>

\* Math.min(a, b)
MathMin(a, b) == IF a < b THEN a ELSE b

\* the setStats of onImageComplete and of onImageError
onImageComplete(stats) ==
  [stats EXCEPT !.completed = @ + 1, !.currentIndex = @ + 1]
onImageError(stats) ==
  [stats EXCEPT !.failed = @ + 1, !.currentIndex = MathMin(@ + 1, app.batch)]

\* `await processImage(...)` settles for run r with outcome o, and the loop
\* calls onImageComplete or onImageError
ASettle(r, o) ==
  /\ runs[r].pc = "inflight"
  /\ runs' = Settled(r, o)
  /\ app' = [app EXCEPT !.terminals = @ + 1,
               !.stats = IF o = "ok" THEN onImageComplete(@) ELSE onImageError(@)]
  /\ UNCHANGED <<images, queue, queueRef, isProcessing, currentIndex, pvars,
                 codec, checksum, pixels>>

\* the 100 ms timer of run r fires; after the last image onQueueComplete
\* sets the view
ADelay(r) ==
  /\ LoopMayAdvance(r)
  /\ LET e == EnterIteration(runs[r].i + 1, runs[r])
     IN /\ runs' = [runs EXCEPT ![r] = e]
        /\ IF e.pc = "done"
           THEN /\ isProcessing' = FALSE /\ UNCHANGED currentIndex
                /\ app' = [app EXCEPT !.view = "results"]
           ELSE currentIndex' = e.i /\ UNCHANGED <<isProcessing, app>>
  /\ UNCHANGED <<images, queue, queueRef, pvars, codec, checksum, pixels>>

\* handleViewResults(), the button that the processing panel shows when
\* isAllComplete
AViewResults ==
  /\ app.view = "processing"
  /\ app.stats.total > 0
  /\ MathMin(app.stats.completed + app.stats.failed, app.stats.total) >= app.stats.total
  /\ app' = [app EXCEPT !.view = "results"]
  /\ UNCHANGED <<qvars, pvars, codec, checksum, pixels>>

\* handleBackToProcessing(), a button of the results view
ABackToProcessing ==
  /\ app.view = "results"
  /\ app' = [app EXCEPT !.view = "processing"]
  /\ UNCHANGED <<qvars, pvars, codec, checksum, pixels>>

\* handleResetApp(), the button of the footer and of the results view, up to
\* its first await: queue.stop(), setImages([]), setStats, setView
AResetApp ==
  /\ ~ app.resetting
  /\ isProcessing' = FALSE
  /\ runs' = [r \in RunIds |->
                IF Active(r) THEN [runs[r] EXCEPT !.stopSeen = TRUE] ELSE runs[r]]
  /\ images' = <<>>
  /\ app' = [app EXCEPT !.view = "upload", !.stats = NoStats, !.resetting = TRUE]
  /\ UNCHANGED <<queue, queueRef, currentIndex, pvars, codec, checksum, pixels>>

\* the end of handleResetApp: window.location.href is assigned and the page
\* is loaded again, which ends every run
AReload ==
  /\ app.resetting
  /\ images' = <<>> /\ queue' = <<>> /\ queueRef' = "own"
  /\ isProcessing' = FALSE /\ currentIndex' = 0
  /\ runs' = [r \in RunIds |-> NewRun]
  /\ app' = [view |-> "upload", stats |-> NoStats, batch |-> 0, terminals |-> 0,
             resetting |-> FALSE]
  /\ UNCHANGED <<pvars, codec, checksum, pixels>>

ANext ==
  \/ \E b \in Batches : AFilesSelected(b)
  \/ \E id \in ImageIds : ARemoveImage(id)
  \/ AStartProcessing
  \/ \E r \in RunIds : \E o \in Outcomes : ASettle(r, o)
  \/ \E r \in RunIds : ADelay(r)
  \/ AViewResults
  \/ ABackToProcessing
  \/ AResetApp
  \/ AReload

\* ------------------------------------------------------ specifications
Init == QInit /\ PInit /\ CIdle /\ EnhanceIdle /\ AppInit

\* the queue under every interleaving of the calls of its methods
Next == QNext

Spec == Init /\ [][Next]_vars

\* the queue when stop() is not called
NoStopSpec == Init /\ [][QNextNoStop]_vars

\* the queue when stop() is not called, every processImage call settles and
\* every 100 ms timer fires
QueueFairness ==
  \A r \in RunIds : /\ WF_vars(\E o \in Outcomes : ProcessSettles(r, o))
                     /\ WF_vars(DelayElapsed(r))
LiveSpec == Init /\ [][QNextNoStop]_vars /\ QueueFairness

\* calls of processImage, one after the other
PipeSpec == Init /\ [][PNext]_vars

\* handleResetApp calls resetAIBackend()
PResetAIBackend ==
  /\ ai' = resetAIBackend(ai)
  /\ ai' # ai
  /\ UNCHANGED <<pipe, qvars, cvars>>

RNext ==
  \/ PNext
  \/ PResetAIBackend

\* calls of processImage, and the user resetting the application at any moment
ResetSpec == Init /\ [][RNext]_vars

\* the resolution-metadata functions applied to a file, write after write
\* and read after read
CInit == QInit /\ PInit /\ CStart /\ EnhanceIdle /\ AppInit

CodecSpec == CInit /\ [][CNext]_vars

\* the readers applied to files with well-formed and with malformed chunks
ScanInit == QInit /\ PInit /\ ScanStart /\ EnhanceIdle /\ AppInit

ScanSpec == ScanInit /\ [][ScanNext]_vars

\* the checksum functions of the PNG writer, each applied to its arguments
CrcInit == QInit /\ PInit /\ CodecIdle /\ CrcStart /\ EnhanceIdle /\ AppInit

CrcSpec == CrcInit /\ [][CrcNext]_vars

\* the enhancement filter applied to an image
EnhanceInit == QInit /\ PInit /\ CodecIdle /\ CrcIdle /\ EnhanceStart /\ AppInit

EnhanceSpec == EnhanceInit /\ [][EnhanceNext]_vars

\* the App component driving one queue: batches are chosen, started and
\* processed, and the application is reset at any moment
AppSpec == Init /\ [][ANext]_vars

\* what `await processImage(...)` delivers to the loop of start()
PipeOutcome == IF pipe.pc = "returned" THEN "ok" ELSE pipe.outcome.mark

\* the caller hands over a batch while no run is under way, as
\* handleStartProcessing does (addImages, then start)
BAddImages(b) == (\A r \in RunIds : ~ Active(r)) /\ AddImages(b)

\* the images of a batch: every choice of stages and of output format, at the
\* default scale, with dpi 'original' or 300, the file carrying no DPI
BatchImages ==
  { img \in ImageSpace : /\ img.options.dpi \in {0, 300}
                         /\ img.options.upscaleFactor = DEFAULT_SCALE
                         /\ ~ img.fileHasDpi }

\* the queue's call of processImage(image, ...) for the image in flight
BProcess(img) == InFlight # {} /\ PBegin(img)

\* the steps of that call up to its return or throw
BStep ==
  \/ \E ok, conv \in BOOLEAN : PEnhance(ok, conv)
  \/ \E ok \in BOOLEAN : PAiLoad(ok)
  \/ \E res \in {"ok", "refused", "throws", "throwsBoth"} : \E webgl, confirmed \in BOOLEAN :
       PAiInit(res, webgl, confirmed)
  \/ \E ok \in BOOLEAN : PAiLoadImage(ok)
  \/ \E ok, webgl, confirmed, conv \in BOOLEAN : PAiUpscale(ok, webgl, confirmed, conv)
  \/ \E ok \in BOOLEAN : PVectorize(ok)
  \/ PPost
  \/ \E ok \in BOOLEAN : PFallback(ok)
  \/ PCheck
  \/ \E ok \in BOOLEAN : PDpi(ok)
  \/ PFinish

\* the call has settled and the loop of run r takes its result or its error
BSettle(r) == pipe.pc \in {"returned", "thrown"} /\ ProcessSettles(r, PipeOutcome)

\* the settled call is gone
BReturn == InFlight = {} /\ PDone

\* the 100 ms timer of run r fires
BDelay(r) == pipe.pc = "idle" /\ DelayElapsed(r)

\* the queue driving processImage; stop() is not called
BNext ==
  \/ \E b \in Batches : BAddImages(b)
  \/ Start
  \/ \E img \in BatchImages : BProcess(img)
  \/ BStep
  \/ \E r \in RunIds : BSettle(r)
  \/ BReturn
  \/ \E r \in RunIds : BDelay(r)

BatchSpec == Init /\ [][BNext]_vars

\* ---------------------------------------------------------- queue claims

\* C1: within one invocation of start(), onImageStart for the image at index
\* N+1 is invoked only after onImageComplete or onImageError has been invoked
\* for the image at index N, whatever the batch and the outcomes.
C1_StartAfterTerminal ==
  \A r \in RunIds : \A n \in runs[r].started : n > 0 => (n - 1) \in Ended(r)

\* a run has started its second image after the first one failed
C1_Witness ==
  \E r \in RunIds : 1 \in runs[r].started /\ 0 \in runs[r].failed

\* C2 (as stated): at most one processImage is in flight at any moment, under
\* every interleaving of start, stop and addImages.
C2_AtMostOneInFlight == Cardinality(InFlight) <= 1

\* C3 (as stated): a call of start() while a run begun by an earlier start() is
\* still under way changes nothing: no callback, no cursor reset, no second
\* iteration.
C3_StartWhileRunningIsNoOp ==
  [][ ((\E r \in RunIds : Active(r)) /\ Start) => UNCHANGED vars ]_vars

\* C4 (as stated): once a processImage of a run has failed with an error marked
\* userAborted, that run invokes onImageStart for no further image and does not
\* invoke onQueueComplete.
C4_UserAbortStopsBatch ==
  [][ \A r \in RunIds :
        (Active(r) /\ runs[r].abortSeen) =>
          /\ runs'[r].started = runs[r].started
          /\ runs'[r].nQueueComplete = runs[r].nQueueComplete ]_vars

\* C5: a failure that is not a user abort is reported by onImageError for that
\* image and the loop goes on: the next step of the run starts the next image
\* of the batch, or, when there is none, invokes onQueueComplete; a run that
\* has ended has started and ended every index below its final loop index
\* exactly in one of the two ways, and has invoked onQueueComplete once.
C5_ErrorSkipsAndContinues ==
  /\ [] (\A r \in RunIds :
           (runs[r].pc = "done" /\ ~ runs[r].abortSeen) =>
             /\ runs[r].started = 0..(runs[r].i - 1)
             /\ Ended(r) = runs[r].started
             /\ runs[r].completed \cap runs[r].failed = {}
             /\ runs[r].nQueueComplete = 1)
  /\ [][ \A r \in RunIds :
           /\ (runs[r].pc = "inflight" /\ runs'[r].failed # runs[r].failed
                 /\ ~ runs'[r].abortSeen) =>
                /\ runs'[r].failed = runs[r].failed \cup {runs[r].i}
                /\ runs'[r].completed = runs[r].completed
                /\ runs'[r].pc = "delay"
           /\ (runs[r].pc = "delay" /\ runs[r].i \in runs[r].failed
                 /\ ~ runs[r].abortSeen /\ runs'[r].pc # "delay") =>
                IF runs[r].i + 1 < Len(Queue)
                THEN /\ runs'[r].pc = "inflight"
                     /\ runs'[r].i = runs[r].i + 1
                     /\ runs'[r].image = Queue[runs[r].i + 2]
                     /\ runs'[r].started = runs[r].started \cup {runs[r].i + 1}
                ELSE /\ runs'[r].pc = "done"
                     /\ runs'[r].nQueueComplete = 1 ]_vars

\* a run over three images has ended; the second image failed (no user abort),
\* the first and the third were completed
C5_Witness ==
  \E r \in RunIds :
    /\ runs[r].pc = "done" /\ ~ runs[r].abortSeen
    /\ runs[r].failed = {1} /\ runs[r].completed = {0, 2}
    /\ runs[r].nQueueComplete = 1

\* C6 (as stated): once stop() has been called during a run, that run invokes
\* onImageStart for no further image and does not end with onQueueComplete.
C6_StopEndsRun ==
  [][ \A r \in RunIds :
        (Active(r) /\ runs[r].stopSeen) =>
          /\ runs'[r].started = runs[r].started
          /\ runs'[r].nQueueComplete = runs[r].nQueueComplete ]_vars

\* C7: right after addImages(L) the queue holds exactly the items of L in order
\* and getProgress() is {current: 0, total: |L|}; a later change of the
\* caller's array leaves the queue as it is.
C7_AddImagesReplacesAndCopies ==
  /\ [][ \A b \in Batches :
           AddImages(b) => (Queue' = b /\ getProgress' = [current |-> 0, total |-> Len(b)]) ]_vars
  /\ [][ (\E b \in Batches : MutateCaller(b)) => (Queue' = Queue) ]_vars

\* addImages was called while a run was past its first image (the cursor is
\* back at 0 while the loop variable is not), and the caller's array has been
\* changed since while the queue kept its items
C7_Witness ==
  /\ \E r \in RunIds : Active(r) /\ runs[r].i > 0 /\ currentIndex = 0
  /\ Queue # <<>>
  /\ images # Queue

\* ------------------------------------------------------- pipeline claims

\* C8 (as stated): the values passed to onProgress for one image are strictly
\* increasing, for every combination of stages and every stage outcome.
C8_ProgressStrictlyIncreasing ==
  \A k \in 1..(Len(pipe.reported) - 1) : pipe.reported[k].v < pipe.reported[k + 1].v

\* the number n of enabled stages, as the claim counts it
C9_N ==
  B2N(pipe.image.options.enableBasicEnhancement) + B2N(pipe.image.options.enableAIUpscale)
    + B2N(pipe.image.options.enableVectorize /\ pipe.image.options.outputFormat \in {"svg", "both"})

C9_StageSites == {"enhance", "aiUpscale", "vectorize"}
C9_StageEndsBefore(j) == Cardinality({ i \in 1..(j - 1) : pipe.reported[i].site \in C9_StageSites })

\* C9: the value reported when the k-th enabled stage finishes is 20 + k*70/n;
\* every value the AI stage's callback reports lies in that stage's interval
\* [20 + (k-1)*70/n, 20 + k*70/n]; every value lies in [0, 100]; the last value
\* of a call that returns a result is 100.
C9_ProgressBudget ==
  /\ \A j \in 1..Len(pipe.reported) :
       LET e == pipe.reported[j]
           k == C9_StageEndsBefore(j) + 1
       IN /\ 0 <= e.v /\ e.v <= Pct(100)
          /\ e.site \in C9_StageSites => e.v * C9_N = Pct(20 * C9_N + 70 * k)
          /\ e.site = "aiCallback" =>
               /\ Pct(20 * C9_N + 70 * (k - 1)) <= e.v * C9_N
               /\ e.v * C9_N <= Pct(20 * C9_N + 70 * k)
  /\ pipe.pc = "returned" => pipe.reported[Len(pipe.reported)].v = Pct(100)

\* a call with all three stages enabled has returned a result: three stage
\* ends (at 20 + 70/3, 20 + 140/3, 90) and the AI callback's reports between
C9_Witness ==
  /\ pipe.pc = "returned"
  /\ C9_StageEndsBefore(Len(pipe.reported)) = 3
  /\ \E j \in 1..Len(pipe.reported) : pipe.reported[j].site = "aiCallback"

C10_RasterStages == {"enhance", "aiUpscale"}

\* the raster stages invoked before stage j that produced an output, and those
\* among them whose output was converted to a File
C10_Ran(j) ==
  { i \in 1..(j - 1) : pipe.stages[i].stage \in C10_RasterStages /\ pipe.stages[i].output # NoUrl }
C10_Converted(j) == { i \in C10_Ran(j) : pipe.stages[i].conv }
C10_Last(S) == CHOOSE i \in S : \A q \in S : q <= i

RasterWanted == pipe.image.options.outputFormat \in {"png", "both"}
VectorWanted == pipe.image.options.outputFormat \in {"svg", "both"}

\* the invocations of a stage in the call under way, by position in the history
StageCalls(name) == { j \in 1..Len(pipe.stages) : pipe.stages[j].stage = name }
ReportedFrom(site) == \E j \in 1..Len(pipe.reported) : pipe.reported[j].site = site

\* the call ended with the error thrown after output filtering (lines 205-209):
\* it is the only throw that follows onProgress(100)
NoOutputError == pipe.pc = "thrown" /\ ReportedFrom("final")

\* the call is past the place of the default enhancement (lines 144-149)
PastFallback == pipe.pc \in {"check", "dpi", "finish", "returned"} \/ NoOutputError

\* C11: when no stage is enabled and raster output is wanted, the default
\* enhancement runs exactly once, on the original file, and a result that is
\* returned has a raster output; when raster output is not wanted (and in
\* general when a stage is enabled) the default enhancement does not run.
C11_DefaultEnhancement ==
  /\ (C9_N = 0 /\ RasterWanted) =>
       /\ Cardinality(StageCalls("enhance")) <= 1
       /\ \A j \in StageCalls("enhance") : pipe.stages[j].input = OrigFile(pipe.image)
       /\ PastFallback => Cardinality(StageCalls("enhance")) = 1
       /\ pipe.pc = "returned" => pipe.pngUrl # NoUrl
  /\ (C9_N = 0 /\ ~ RasterWanted) => StageCalls("enhance") = {}
  /\ pipe.pc \in {"fallback"} => (C9_N = 0 /\ RasterWanted)

\* nothing enabled, png wanted: the call returned a raster made by the one
\* default enhancement of the original file
C11_Witness ==
  /\ pipe.pc = "returned" /\ C9_N = 0 /\ RasterWanted
  /\ pipe.pngUrl # NoUrl
  /\ Len(pipe.stages) >= 1
  /\ pipe.stages[1].stage = "enhance" /\ pipe.stages[1].input = OrigFile(pipe.image)
  /\ pipe.stages[1].output # NoUrl

\* vector output is asked for but vectorization is not enabled
C12_Case == VectorWanted /\ ~ pipe.image.options.enableVectorize

\* C12 (as stated): whenever vector output is asked for (svg or both) and
\* enableVectorize is false, the call does not fail for lack of the vector
\* output: it never ends with the no-output error.
C12_AsStated == C12_Case => ~ NoOutputError

\* C12 (amended): with vector output asked for and enableVectorize false,
\* vectorizeImage is never called and no vector output exists; with
\* outputFormat both the call never ends with the no-output error and a
\* returned result has the raster output only; with outputFormat svg the call
\* never returns a result, and once it has reported 100 it ends with the
\* no-output error.
C12_VectorOmitted ==
  C12_Case =>
    /\ StageCalls("vectorize") = {}
    /\ pipe.svgUrl = NoUrl
    /\ pipe.image.options.outputFormat = "both" =>
         /\ ~ NoOutputError
         /\ pipe.pc = "returned" => pipe.pngUrl # NoUrl
    /\ pipe.image.options.outputFormat = "svg" =>
         /\ pipe.pc # "returned"
         /\ ReportedFrom("final") => NoOutputError

\* outputFormat both, vectorization not enabled, enhancement enabled: the call
\* returned a result with the raster output and without vector output
C12_Witness ==
  /\ C12_Case /\ pipe.image.options.outputFormat = "both"
  /\ pipe.image.options.enableBasicEnhancement
  /\ pipe.pc = "returned" /\ pipe.pngUrl # NoUrl /\ pipe.svgUrl = NoUrl

\* C13: vectorizeImage is called at most once per call; it is called only if
\* enableVectorize is true and outputFormat is svg or both; and under that
\* condition it has been called once the call is past the stages, unless an
\* earlier stage (enhancement or AI upscale) ended the call with its error.
C13_VectorizeIff ==
  LET on == pipe.image.options.enableVectorize /\ VectorWanted
      n == Cardinality(StageCalls("vectorize"))
  IN /\ n <= 1
     /\ n = 1 => on
     /\ (on /\ (pipe.pc \in {"post", "fallback", "check", "dpi", "finish", "returned"}
                  \/ NoOutputError)) => n = 1
     /\ (on /\ pipe.pc = "thrown" /\ n = 0) =>
          /\ pipe.image.options.enableBasicEnhancement \/ pipe.image.options.enableAIUpscale
          /\ ~ ReportedFrom("vectorize")

\* enhancement and vectorization enabled, both wanted: the call returned after
\* one call of vectorizeImage
C13_Witness ==
  /\ pipe.pc = "returned"
  /\ pipe.image.options.enableBasicEnhancement
  /\ pipe.image.options.outputFormat = "both"
  /\ Cardinality(StageCalls("vectorize")) = 1
  /\ pipe.svgUrl # NoUrl

\* the raster stage outputs of the call under way
RasterOutputs ==
  { pipe.stages[j].output : j \in { i \in StageCalls("enhance") \cup StageCalls("aiUpscale") :
                                       pipe.stages[i].output # NoUrl } }

\* C14: a result that is returned has pngUrl or svgUrl; it has pngUrl only if
\* outputFormat is png or both and svgUrl only if outputFormat is svg or both;
\* when the call has filtered its outputs (it returned, or threw the no-output
\* error) an output that is not wanted is no longer held: its URL is revoked.
C14_ResultOutputs ==
  /\ pipe.pc = "returned" =>
       /\ pipe.pngUrl # NoUrl \/ pipe.svgUrl # NoUrl
       /\ pipe.pngUrl # NoUrl => RasterWanted
       /\ pipe.svgUrl # NoUrl => VectorWanted
  /\ (pipe.pc = "returned" \/ NoOutputError) =>
       /\ ~ RasterWanted =>
            /\ pipe.pngUrl = NoUrl
            /\ \A j \in StageCalls("enhance") \cup StageCalls("aiUpscale") :
                 (pipe.stages[j].output # NoUrl /\ j = Len(pipe.stages) - Cardinality(StageCalls("vectorize")))
                   => pipe.stages[j].output \notin pipe.live
       /\ ~ VectorWanted =>
            /\ pipe.svgUrl = NoUrl
            /\ \A j \in StageCalls("vectorize") : pipe.stages[j].output \notin pipe.live

\* svg only, enhancement and vectorization enabled: the call returned the
\* vector output, and the raster the enhancement made has been released
C14_Witness ==
  /\ pipe.pc = "returned" /\ ~ RasterWanted
  /\ pipe.svgUrl # NoUrl /\ pipe.pngUrl = NoUrl
  /\ RasterOutputs # {} /\ RasterOutputs \cap pipe.live = {}

\* ---------------------------------------- pipeline claims: stage failures

\* the call ended with an error of the AI step (lines 94-124): after the
\* enhancement step, if enabled, had finished and before the AI step finished
AiStageFailed ==
  /\ pipe.pc = "thrown"
  /\ pipe.image.options.enableAIUpscale
  /\ pipe.image.options.enableBasicEnhancement => ReportedFrom("enhance")
  /\ ~ ReportedFrom("aiUpscale")

\* C16: a failure of the AI step is not caught by processWithPipeline: once
\* aiUpscale has failed the call is over with that error; no result is
\* returned, and vectorizeImage, the final addDPIMetadata and onProgress(100)
\* are not reached.
C16_AiFailurePropagates ==
  /\ \A j \in StageCalls("aiUpscale") :
       (pipe.stages[j].output = NoUrl /\ pipe.pc \notin {"aiInit", "aiLoadImg", "aiUpscale"})
         => AiStageFailed
  /\ AiStageFailed =>
       /\ pipe.outcome.kind = "error"
       /\ pipe.outcome.mark \in {"userAborted", "skip", "other"}
       /\ StageCalls("vectorize") = {}
       /\ StageCalls("addDPIMetadata") = {}
       /\ ~ ReportedFrom("vectorize")
       /\ ~ ReportedFrom("final")

\* AI upscale and vectorization enabled, vector output wanted: aiUpscale was
\* called and failed, and the call is over with the error marked skip
C16_Witness ==
  /\ AiStageFailed /\ pipe.outcome.mark = "skip"
  /\ StageCalls("aiUpscale") # {}
  /\ pipe.image.options.enableVectorize /\ VectorWanted /\ RasterWanted

VectorizeFailed == \E j \in StageCalls("vectorize") : pipe.stages[j].output = NoUrl

\* C17: a failure of vectorizeImage is caught: there is no vector output, the
\* step's share of progress is credited all the same (vectorization is the
\* last stage, so progress stands at 90 and is reported), the call goes on, and
\* it ends with an error only when no wanted raster output exists; a result
\* that is returned has pngUrl and no svgUrl.
C17_VectorizeFailureCaught ==
  VectorizeFailed =>
    /\ pipe.svgUrl = NoUrl
    /\ pipe.currentProgress = Pct(90)
    /\ \E j \in 1..Len(pipe.reported) :
         pipe.reported[j].site = "vectorize" /\ pipe.reported[j].v = Pct(90)
    /\ pipe.pc = "thrown" =>
         /\ ~ (RasterWanted /\ RasterOutputs # {})
         /\ pipe.outcome.mark = "skip"
    /\ pipe.pc = "returned" => (pipe.pngUrl # NoUrl /\ pipe.svgUrl = NoUrl)

\* vectorizeImage failed after an enhancement, both outputs wanted: the call
\* returned a result with pngUrl and no svgUrl
C17_Witness ==
  /\ VectorizeFailed /\ pipe.pc = "returned"
  /\ pipe.image.options.outputFormat = "both"
  /\ pipe.pngUrl # NoUrl /\ pipe.svgUrl = NoUrl

LastRasterOutput ==
  LET S == { j \in StageCalls("enhance") \cup StageCalls("aiUpscale") : pipe.stages[j].output # NoUrl }
  IN IF S = {} THEN NoUrl ELSE pipe.stages[CHOOSE j \in S : \A q \in S : q <= j].output

C20_EnhancementOnceAndFirst ==
  /\ Cardinality(StageCalls("enhance")) <= 1
  /\ \A e \in StageCalls("enhance") :
       /\ \A a \in StageCalls("aiUpscale") : e < a
       /\ pipe.stages[e].input = OrigFile(pipe.image)
       /\ pipe.stages[e].input.k # "ai"

\* enhancement and AI upscale enabled: the call returned after one enhanceImage
\* followed by aiUpscale
C20_Witness ==
  /\ pipe.pc = "returned" /\ RasterWanted
  /\ Len(pipe.stages) >= 2
  /\ pipe.stages[1].stage = "enhance" /\ pipe.stages[1].output # NoUrl
  /\ pipe.stages[2].stage = "aiUpscale" /\ pipe.stages[2].output # NoUrl
  /\ Cardinality(StageCalls("enhance")) = 1

\* ------------------------------------------- the no-output error in a batch

\* output filtering (lines 186-203) will leave neither output
FilterLeavesNothing ==
  /\ RasterWanted => pipe.pngUrl = NoUrl
  /\ VectorWanted => pipe.svgUrl = NoUrl

\* C15: when output filtering leaves neither a raster nor a vector output,
\* processImage ends with the no-output error (marked skipImage) and returns no
\* result; the queue takes that error by onImageError for the image in flight,
\* without onImageComplete and without ending the loop, and its next step
\* starts the next image of the batch or, after the last one, ends the run
\* with onQueueComplete.
C15_NoOutputFailsOneImage ==
  /\ [] ((ReportedFrom("final") /\ pipe.pngUrl = NoUrl /\ pipe.svgUrl = NoUrl) =>
           (NoOutputError /\ pipe.outcome = [kind |-> "error", mark |-> "skip"]))
  /\ [][ (pipe.pc = "finish" /\ FilterLeavesNothing /\ pipe'.pc # "finish") =>
           (pipe'.pc = "thrown" /\ pipe'.outcome = [kind |-> "error", mark |-> "skip"]) ]_vars
  /\ [][ \A r \in RunIds :
           /\ (NoOutputError /\ runs[r].pc = "inflight" /\ runs'[r] # runs[r]) =>
                /\ runs'[r].failed = runs[r].failed \cup {runs[r].i}
                /\ runs'[r].completed = runs[r].completed
                /\ runs'[r].started = runs[r].started
                /\ runs'[r].nQueueComplete = runs[r].nQueueComplete
                /\ runs'[r].pc = "delay"
           /\ (runs[r].pc = "delay" /\ runs[r].i \in runs[r].failed
                 /\ ~ runs[r].abortSeen /\ runs'[r].pc # "delay") =>
                IF runs[r].i + 1 < Len(Queue)
                THEN /\ runs'[r].pc = "inflight"
                     /\ runs'[r].i = runs[r].i + 1
                     /\ runs'[r].started = runs[r].started \cup {runs[r].i + 1}
                ELSE /\ runs'[r].pc = "done"
                     /\ runs'[r].nQueueComplete = runs[r].nQueueComplete + 1 ]_vars

\* in a batch of two or more images the first image's call has ended with the
\* no-output error and the run has recorded the image as failed; the loop is
\* at its delay, the second image still to come
C15_Witness ==
  /\ NoOutputError
  /\ Len(Queue) >= 2
  /\ \E r \in RunIds :
       /\ runs[r].pc = "delay" /\ runs[r].i = 0
       /\ runs[r].failed = {0} /\ runs[r].completed = {}

\* the object URLs the ended call hands to its caller
ReturnedUrls ==
  IF pipe.pc = "returned" THEN {pipe.pngUrl, pipe.svgUrl} \ {NoUrl} ELSE {}

\* C21: a raster result that is replaced by a newer one (the AI output after
\* the enhancement output, the DPI-tagged raster after the untagged one) is
\* released at the replacement, and when the call has ended, by a result or
\* by an error, the only object URLs it created and did not release are the
\* ones in its result
C21_SupersededReleased ==
  /\ [](pipe.pc \in {"returned", "thrown"} => pipe.live \subseteq ReturnedUrls)
  /\ [][ (pipe.pngUrl # NoUrl /\ pipe'.pngUrl # NoUrl /\ pipe'.pngUrl # pipe.pngUrl) =>
           pipe.pngUrl \notin pipe'.live ]_vars

\* the upscaling stage of the call under way has its model and works on the image
AiModelInUse == pipe.pc \in {"aiLoadImg", "aiUpscale"}

\* C22: aiUpscale called with a scale that is none of 2, 3, 4 uses the model
\* of the default scale 2 and goes on without an error; a scale of 2, 3 or 4
\* is used as it is
C22_ScaleNormalized ==
  AiModelInUse =>
    LET f == pipe.image.options.upscaleFactor
        used == IF f = 2 \/ f = 3 \/ f = 4 THEN f ELSE 2
    IN ai.upscalerInstance = used /\ ai.currentScale = used

\* a call with upscaleFactor 5 has got the 2x model, after a call with
\* another factor, and upscales with it
C22_Witness ==
  /\ pipe.pc = "aiUpscale"
  /\ pipe.image.options.upscaleFactor = 5
  /\ ai.currentScale = 2
  /\ pipe.outcome.kind = "none"

\* the latest call of getUpscaler constructed an Upscaler
Initialized(a) == \E i \in 1..Len(a.events) : a.events[i].op = "new"

\* the upscaling stage of the call under way has returned its result
AiStageSucceeded ==
  \E i \in 1..Len(pipe.stages) :
    pipe.stages[i].stage = "aiUpscale" /\ pipe.stages[i].output # NoUrl

\* C23: over any sequence of aiUpscale calls getUpscaler constructs a model
\* only when none is loaded or the loaded scale is not the requested one, and
\* then disposes of the old instance, if there is one, before the new one
\* takes its place; a loaded model of the requested scale is returned as it
\* is. A successful call leaves the model of its scale loaded and nothing
\* outside aiUpscale touches it, so that the next call with the same scale
\* gets the same instance.
C23_ModelReuse ==
  /\ [](AiStageSucceeded =>
          /\ ai.upscalerInstance # 0
          /\ ai.currentScale = targetScale(pipe))
  /\ [][ pipe.pc \notin {"aiInit", "aiLoadImg", "aiUpscale"} => ai' = ai ]_vars
  /\ [][ pipe.pc = "aiInit" =>
           LET scale == targetScale(pipe)
               loaded == ai.upscalerInstance # 0
           IN /\ Initialized(ai') => (~ loaded \/ ai.currentScale # scale)
              /\ (loaded /\ ai.currentScale = scale) =>
                   /\ ai'.events = <<>>
                   /\ ai'.upscalerInstance = ai.upscalerInstance
                   /\ ai'.currentScale = scale
                   /\ pipe'.pc = "aiLoadImg"
              /\ (Initialized(ai') /\ loaded) =>
                   ai'.events = << UpscalerEvent("dispose", ai.upscalerInstance),
                                   UpscalerEvent("new", scale) >>
              /\ (Initialized(ai') /\ ~ loaded) =>
                   ai'.events = << UpscalerEvent("new", scale) >> ]_vars

\* a call has found the model of its scale loaded by an earlier call and
\* goes on with it, nothing constructed or disposed of
C23_Witness ==
  /\ pipe.pc = "aiLoadImg"
  /\ pipe.allowFallback
  /\ ai.events = <<>>
  /\ ai.upscalerInstance = targetScale(pipe)

\* a call has replaced the loaded model by one of another scale, the old
\* instance disposed of first
C23_WitnessReplaced ==
  /\ pipe.pc = "aiLoadImg"
  /\ Len(ai.events) = 2
  /\ ai.events[1].op = "dispose" /\ ai.events[1].inst # targetScale(pipe)
  /\ ai.events[2] = UpscalerEvent("new", targetScale(pipe))

\* C24: when an upscale attempt fails with a WebGL-class error while the
\* current backend is not cpu and the user answers no to the prompt, the call
\* fails with the error marked userAborted (and not skipImage), the attempt
\* is not made again on cpu, and the backend variables stay what they were
\* when the error was caught
C24_DeclineAborts ==
  \A i \in 1..Len(pipe.caught) :
    LET c == pipe.caught[i]
    IN (c.webgl /\ c.backend # "cpu" /\ c.answer = "no") =>
         /\ i = Len(pipe.caught)
         /\ pipe.pc = "thrown"
         /\ pipe.outcome = [kind |-> "error", mark |-> "userAborted"]
         /\ pipe.allowFallback
         /\ ai.desiredBackend = c.desired
         /\ ai.currentBackend = c.backend

\* upscaler.upscale has failed on webgl with a WebGL-class error, the user
\* has said no, and the call has ended
C24_Witness ==
  /\ pipe.pc = "thrown"
  /\ Len(pipe.caught) = 1
  /\ pipe.caught[1].webgl /\ pipe.caught[1].backend = "webgl"
  /\ pipe.caught[1].answer = "no"
  /\ ai.desiredBackend = "webgl" /\ ai.upscalerInstance # 0

\* C25: degradation goes one way, from webgl to cpu. Within one aiUpscale
\* call the user is asked at most once and at most one retry is made; an
\* error of the retry ends the call with the skip mark, without a prompt and
\* without another retry; an error that is not WebGL-class never leads to a
\* prompt or a retry; and desiredBackend, once cpu, becomes webgl again only
\* by resetAIBackend
C25_SingleDegradation ==
  /\ [] /\ Len(pipe.caught) <= 2
        /\ \A i \in 1..Len(pipe.caught) :
             LET c == pipe.caught[i]
                 ended == /\ i = Len(pipe.caught)
                          /\ pipe.pc = "thrown"
                          /\ pipe.outcome = [kind |-> "error", mark |-> "skip"]
             IN /\ (i = 2) => (pipe.caught[1].answer = "yes" /\ c.answer = "none" /\ ended)
                /\ (~ c.webgl) => (c.answer = "none" /\ ended)
                /\ (c.answer = "yes") => (i = 1 /\ ~ pipe.allowFallback)
  /\ [][ (ai.desiredBackend = "cpu" /\ ai'.desiredBackend # "cpu")
           => (pipe' = pipe /\ ai' = resetAIBackend(ai)) ]_vars

\* the retry on cpu, made after the user agreed, has failed with a WebGL-class
\* error while currentBackend was still webgl: no prompt, the call ends with
\* the skip mark and cpu stays the desired backend
C25_Witness ==
  /\ pipe.pc = "thrown"
  /\ Len(pipe.caught) = 2
  /\ pipe.caught[1].answer = "yes"
  /\ pipe.caught[2].webgl /\ pipe.caught[2].backend # "cpu"
  /\ pipe.outcome.mark = "skip"
  /\ ai.desiredBackend = "cpu"

\* the buffer begins with the PNG signature and the IHDR chunk of 13 bytes
BeginsAsPng(view) ==
  /\ Len(view) >= 33
  /\ SubSeq(view, 1, 16) = <<137, 80, 78, 71, 13, 10, 26, 10, 0, 0, 0, 13, 73, 72, 68, 82>>

\* the PNG writer has been applied to the file, without an error
PngWritten == codec.kind = "png" /\ codec.error = "none" /\ Len(codec.dpis) >= 1

\* C26: for a valid PNG file and a dpi of 72, 150, 300 or 600, reading the
\* output of addDPIMetadata with readPNGDPI or with readImageDPI returns that
\* dpi, also when the file held a pHYs chunk of another value before (from
\* its encoder or from an earlier write)
C26_WriteThenRead ==
  (PngWritten /\ BeginsAsPng(codec.bufs[1])) =>
    LET dpi == codec.dpis[Len(codec.dpis)]
    IN /\ codec.readPanel \in {Unread, [kind |-> "dpi", dpi |-> dpi]}
       /\ codec.readFile \in {Unread, [kind |-> "dpi", dpi |-> dpi]}

\* a file that carried 96 dpi has been given 300 dpi and both readers have
\* returned 300
C26_Witness ==
  /\ PngWritten
  /\ readPNGDPI(codec.bufs[1]) = [kind |-> "dpi", dpi |-> 96]
  /\ codec.dpis = <<300>>
  /\ codec.readPanel = [kind |-> "dpi", dpi |-> 300]
  /\ codec.readFile = [kind |-> "dpi", dpi |-> 300]

\* the 21 bytes of the record for the four dpi values: length 9, 'pHYs',
\* X = Y = round(dpi * 39.3701), unit 1, and the CRC-32 of the 13 bytes
\* after the length
C27_Record(dpi) ==
  <<0, 0, 0, 9, 112, 72, 89, 115>> \o
  (CASE dpi = 72 -> <<0, 0, 11, 19, 0, 0, 11, 19, 1, 0, 154, 156, 24>>
     [] dpi = 150 -> <<0, 0, 23, 18, 0, 0, 23, 18, 1, 103, 159, 210, 82>>
     [] dpi = 300 -> <<0, 0, 46, 35, 0, 0, 46, 35, 1, 120, 165, 63, 118>>
     [] dpi = 600 -> <<0, 0, 92, 70, 0, 0, 92, 70, 1, 20, 148, 67, 65>>)

\* C27: addDPIMetadata on a buffer that begins with the PNG signature
\* succeeds and returns a buffer 21 bytes longer: bytes [0,33) are the
\* input's bytes [0,33), bytes [33,54) are the record, and the bytes from 54
\* on are the input's bytes from 33 on
C27_SpliceAtHeaderEnd ==
  (codec.kind = "png" /\ Len(codec.dpis) >= 1
     /\ Len(codec.bufs[1]) >= 8 /\ SubSeq(codec.bufs[1], 1, 8) = <<137, 80, 78, 71, 13, 10, 26, 10>>) =>
    /\ codec.error = "none"
    /\ Len(codec.bufs) = Len(codec.dpis) + 1
    /\ \A n \in 1..Len(codec.dpis) :
         LET in == codec.bufs[n]
             out == codec.bufs[n + 1]
         IN /\ Len(out) = Len(in) + 21
            /\ SubSeq(out, 1, 33) = SubSeq(in, 1, 33)
            /\ SubSeq(out, 34, 54) = C27_Record(codec.dpis[n])
            /\ SubSeq(out, 55, Len(out)) = SubSeq(in, 34, Len(in))

\* two writes, of 150 and then 600 dpi, have been applied to a PNG file
C27_Witness ==
  /\ PngWritten
  /\ codec.dpis = <<150, 600>>
  /\ Len(codec.bufs) = 3
  /\ Len(codec.bufs[3]) = Len(codec.bufs[1]) + 42

\* the first eight bytes of the buffer are not the PNG signature
SignatureDiffers(view) ==
  \E i \in 1..8 : i > Len(view) \/ view[i] # <<137, 80, 78, 71, 13, 10, 26, 10>>[i]

\* C28: addDPIMetadata fails with the invalid-format error whenever one of
\* the first 8 bytes is not the signature's, and the finalization step of
\* the pipeline catches that failure: the raster and its size stay those of
\* the unmodified buffer and the step ends normally
C28_InvalidFormatCaught ==
  (codec.kind = "png" /\ SignatureDiffers(codec.bufs[1])) =>
    /\ Len(codec.dpis) >= 1 => (codec.error = "invalidFormat" /\ Len(codec.bufs) = 1)
    /\ codec.final.done =>
         /\ codec.final.caught = "invalidFormat"
         /\ codec.final.png = codec.bufs[1]
         /\ codec.final.pngSize = Len(codec.bufs[1])

\* the finalization step has caught the invalid-format error for a file
\* whose signature is wrong in its last byte only
C28_Witness ==
  /\ codec.kind = "png"
  /\ Len(codec.bufs[1]) > 8
  /\ SubSeq(codec.bufs[1], 1, 7) = <<137, 80, 78, 71, 13, 10, 26>>
  /\ codec.bufs[1][8] # 10
  /\ codec.final.done /\ codec.final.caught = "invalidFormat"
  /\ codec.final.png = codec.bufs[1]

\* the offsets (from 0) of the JFIF APP0 segments among the segments that
\* follow SOI, up to the start of the scan or the end of the image
RECURSIVE JfifSegmentsFrom(_, _)
JfifSegmentsFrom(view, o) ==
  IF o + 4 > Len(view) \/ view[o + 1] # 255 \/ view[o + 2] \in {217, 218} THEN {}
  ELSE (IF view[o + 2] = 224 /\ o + 9 <= Len(view)
             /\ SubSeq(view, o + 5, o + 9) = <<74, 70, 73, 70, 0>>
        THEN {o} ELSE {})
         \cup JfifSegmentsFrom(view, o + 2 + (view[o + 3] * 256) + view[o + 4])

BeginsAsJpeg(view) == Len(view) >= 2 /\ view[1] = 255 /\ view[2] = 216

\* the JPEG writer has been applied to the file
JpegWriteTried == codec.kind = "jpeg" /\ Len(codec.dpis) >= 1

\* C29: for a valid JPEG file, the JPEG writer applied with d2 to the output
\* of the writer with d1 gives a buffer with exactly one JFIF segment, as the
\* buffer after the first write has, of the same total length, with both
\* density fields equal to d2
C29_RewriteReplaces ==
  (JpegWriteTried /\ BeginsAsJpeg(codec.bufs[1])) =>
    /\ codec.error = "none"
    /\ \A n \in 2..Len(codec.dpis) :
         LET first == codec.bufs[n]
             second == codec.bufs[n + 1]
             d2 == codec.dpis[n]
         IN /\ Cardinality(JfifSegmentsFrom(first, 2)) = 1
            /\ Cardinality(JfifSegmentsFrom(second, 2)) = 1
            /\ Len(second) = Len(first)
            /\ \A o \in JfifSegmentsFrom(second, 2) :
                 SubSeq(second, o + 12, o + 16) =
                   <<1, d2 \div 256, d2 % 256, d2 \div 256, d2 % 256>>

\* a file without a JFIF segment has been written with 72 and then with 300 dpi
C29_Witness ==
  /\ JpegWriteTried /\ codec.error = "none"
  /\ JfifSegmentsFrom(codec.bufs[1], 2) = {}
  /\ codec.dpis = <<72, 300>>
  /\ Len(codec.bufs) = 3
  /\ JfifSegmentsFrom(codec.bufs[3], 2) = {2}

\* the segment the writer makes for a dpi
C30_Segment(dpi) ==
  <<255, 224, 0, 16, 74, 70, 73, 70, 0, 1, 1, 1,
    dpi \div 256, dpi % 256, dpi \div 256, dpi % 256, 0, 0>>

\* C30: the JPEG writer fails with the invalid-format error when the buffer
\* does not begin with 0xFFD8. When it does and holds no JFIF APP0 segment,
\* the output is the input with the 18-byte JFIF segment put right after the
\* two bytes of SOI; when it holds one, the output is the input with that
\* segment, in its declared length, replaced by the 18-byte segment; every
\* other byte is as in the input
C30_InsertOrReplace ==
  JpegWriteTried =>
    IF ~ BeginsAsJpeg(codec.bufs[1])
    THEN codec.error = "invalidFormat" /\ Len(codec.bufs) = 1
    ELSE /\ codec.error = "none"
         /\ Len(codec.bufs) = Len(codec.dpis) + 1
         /\ \A n \in 1..Len(codec.dpis) :
              LET in == codec.bufs[n]
                  out == codec.bufs[n + 1]
                  found == JfifSegmentsFrom(in, 2)
                  o == CHOOSE x \in found : \A y \in found : x <= y
                  old == (in[o + 3] * 256) + in[o + 4]
              IN IF found = {}
                 THEN out = SubSeq(in, 1, 2) \o C30_Segment(codec.dpis[n]) \o SubSeq(in, 3, Len(in))
                 ELSE out = SubSeq(in, 1, o) \o C30_Segment(codec.dpis[n])
                              \o SubSeq(in, o + 2 + old + 1, Len(in))

\* a file whose JFIF segment, behind an Exif segment, carries a thumbnail
\* (19 bytes declared) has had that segment replaced: the output is 3 bytes
\* shorter
C30_Witness ==
  /\ JpegWriteTried /\ codec.error = "none"
  /\ JfifSegmentsFrom(codec.bufs[1], 2) = {12}
  /\ codec.bufs[1][16] = 19
  /\ Len(codec.bufs) >= 2
  /\ Len(codec.bufs[2]) = Len(codec.bufs[1]) - 3

\* ---- C31
\* CRC-32 as the standards define it, most significant bit first: each byte
\* enters bit-reversed at the top of the register, the register moves left
\* under the polynomial 0x04C11DB7, and the result is the bit-reversed
\* register, inverted. The register starts at 0xFFFFFFFF.
C31_Reflect8(b) ==
  ((b % 2) * 128) + (((b \div 2) % 2) * 64) + (((b \div 4) % 2) * 32)
    + (((b \div 8) % 2) * 16) + (((b \div 16) % 2) * 8) + (((b \div 32) % 2) * 4)
    + (((b \div 64) % 2) * 2) + ((b \div 128) % 2)
C31_Shl1(w) ==
  << ((w[1] % 128) * 2) + (w[2] \div 128), ((w[2] % 128) * 2) + (w[3] \div 128),
     ((w[3] % 128) * 2) + (w[4] \div 128), (w[4] % 128) * 2 >>
RECURSIVE C31_Divide(_, _)
C31_Divide(reg, n) ==
  IF n = 0 THEN reg
  ELSE IF reg[1] >= 128 THEN C31_Divide(Xor32(C31_Shl1(reg), <<4, 193, 29, 183>>), n - 1)
  ELSE C31_Divide(C31_Shl1(reg), n - 1)
RECURSIVE C31_Register(_, _, _)
C31_Register(reg, data, i) ==
  IF i > Len(data) \/ Len(reg) # 4 THEN reg
  ELSE C31_Register(C31_Divide(Xor32(reg, <<C31_Reflect8(data[i]), 0, 0, 0>>), 8), data, i + 1)
C31_Crc32(data) ==
  LET reg == C31_Register(AllOnes, data, 1)
  IN Xor32(<< C31_Reflect8(reg[4]), C31_Reflect8(reg[3]),
              C31_Reflect8(reg[2]), C31_Reflect8(reg[1]) >>, AllOnes)

\* C31: the number calculateCRC returns is unsigned, is the standard CRC-32
\* of its argument (for "123456789" the check value 0xCBF43926, for "IEND"
\* 0xAE426082, for no bytes 0), and the last four bytes of the chunk that
\* createPHYsChunk returns are the CRC-32 of its bytes 4..16: the type, X, Y
\* and the unit 1.
C31_StandardCrc32 ==
  /\ checksum.op = "calculateCRC" =>
        LET n == checksum.out[1]
        IN /\ n.hi \in 0..65535 /\ n.lo \in 0..65535
           /\ SetUint32(n) = C31_Crc32(checksum.data)
           /\ checksum.data = <<49, 50, 51, 52, 53, 54, 55, 56, 57>> => n = [hi |-> 52212, lo |-> 14630]
           /\ checksum.data = <<73, 69, 78, 68>> => n = [hi |-> 44610, lo |-> 24706]
           /\ checksum.data = <<>> => n = [hi |-> 0, lo |-> 0]
  /\ checksum.op = "createPHYsChunk" =>
        LET covered == <<112, 72, 89, 115>> \o Uint32Bytes(checksum.data[1])
                         \o Uint32Bytes(checksum.data[2]) \o <<1>>
        IN /\ Len(checksum.out) = 21
           /\ Len(covered) = 13
           /\ SubSeq(checksum.out, 5, 17) = covered
           /\ SubSeq(checksum.out, 18, 21) = C31_Crc32(covered)

\* calculateCRC has returned a checksum whose top bit is set, that of
\* "123456789"
C31_Witness ==
  /\ checksum.op = "calculateCRC"
  /\ checksum.data = <<49, 50, 51, 52, 53, 54, 55, 56, 57>>
  /\ checksum.out[1].hi >= 32768

\* ---- C32
\* C32: with denoiseLevel 'none', the buffer applyEnhancement returns holds
\* the bytes it was given, at every channel of every pixel.
C32_NoneIsIdentity ==
  (pixels.called /\ pixels.level = "none") =>
    /\ Len(pixels.out) = pixels.width * pixels.height * 4
    /\ \A i \in 1..Len(pixels.data) : pixels.out[i] = pixels.data[i]

\* applyEnhancement has returned with 'none' for an image that has interior
\* pixels and both colours in it
C32_Witness ==
  /\ pixels.called /\ pixels.level = "none"
  /\ pixels.width >= 3 /\ pixels.height >= 3
  /\ \E i, j \in 1..Len(pixels.data) : i % 4 = j % 4 /\ pixels.data[i] # pixels.data[j]
  /\ pixels.out = pixels.data

\* ---- C33
\* pixel (x, y) is not on the 1-pixel border
C33_Interior(x, y) ==
  x >= 1 /\ x < pixels.width - 1 /\ y >= 1 /\ y < pixels.height - 1

\* channel c of pixel (x, y) of the contrast-adjusted buffer
C33_Contrast(x, y, c) ==
  ContrastByte(pixels.data[(((y * pixels.width) + x) * 4) + c + 1], pixels.level)

\* C33: with denoiseLevel light, medium or heavy, the returned buffer has
\* every alpha value unchanged, every interior pixel's R, G, B equal to
\* clamp(0, 255, c + s * (4c - sum of the 4 neighbours)) on the contrast-
\* adjusted buffer, and every border pixel's R, G, B equal to the contrast-
\* adjusted value clamp(0, 255, (v - 128) * k + 128).
C33_ContrastEverywhere ==
  (pixels.called /\ pixels.level # "none") =>
    \A x \in 0..(pixels.width - 1), y \in 0..(pixels.height - 1) :
      LET idx == ((y * pixels.width) + x) * 4
      IN /\ pixels.out[idx + 4] = pixels.data[idx + 4]
         /\ \A c \in 0..2 :
              pixels.out[idx + c + 1] =
                IF C33_Interior(x, y)
                THEN SharpenByte(C33_Contrast(x, y, c),
                                 C33_Contrast(x, y - 1, c) + C33_Contrast(x, y + 1, c)
                                   + C33_Contrast(x - 1, y, c) + C33_Contrast(x + 1, y, c),
                                 pixels.level)
                ELSE C33_Contrast(x, y, c)

\* ---- C34
\* C34: after every call of onImageComplete or onImageError,
\* stats.completed + stats.failed is the number of such calls of the batch
\* so far, and it does not exceed stats.total; this also holds when the
\* application is reset or images are removed while the queue is running.
C34_StatsTrackTerminals ==
  [][ app'.terminals = app.terminals + 1 =>
        /\ app'.stats.completed + app'.stats.failed = app'.terminals
        /\ app'.stats.completed + app'.stats.failed <= app'.stats.total ]_vars

\* ---- C35
\* C35: in a run of start() whose batch is not replaced, the callbacks come
\* image by image in batch order: onImageStart for index n is called once,
\* when every earlier image has had its terminal callback; the terminal
\* callback of an image is exactly one of onImageComplete and onImageError,
\* called once, after that image's onImageStart; when the run ends every
\* image of the batch has had both; and onProgress is called only while an
\* image has been started and has not had its terminal callback.
C35_CallbackOrder ==
  [][ /\ \A r \in RunIds :
           LET a == runs[r]
               b == runs'[r]
               endedA == a.completed \cup a.failed
               endedB == b.completed \cup b.failed
           IN /\ b.completed \cap b.failed = {}
              /\ endedB \subseteq b.started
              \* a run begins in a free slot
              /\ (~ Active(r) /\ b # a) =>
                    /\ endedB = {}
                    /\ \/ b.pc = "inflight" /\ b.started = {0} /\ b.image = Queue'[1]
                       \/ b.pc = "done" /\ b.started = {} /\ Len(Queue') = 0
              \* onImageStart of the next image
              /\ (Active(r) /\ b.started # a.started) =>
                    /\ b.started = a.started \cup {b.i}
                    /\ b.i \notin a.started
                    /\ b.i = Cardinality(a.started)
                    /\ endedA = a.started /\ endedB = endedA
                    /\ b.image = Queue[b.i + 1]
              \* onImageComplete or onImageError
              /\ (Active(r) /\ endedB # endedA) =>
                    /\ a.pc = "inflight" /\ b.started = a.started
                    /\ a.i \in a.started /\ a.i \notin endedA
                    /\ \/ b.completed = a.completed \cup {a.i} /\ b.failed = a.failed
                       \/ b.failed = a.failed \cup {a.i} /\ b.completed = a.completed
              \* the run ends
              /\ (Active(r) /\ b.pc = "done") =>
                    /\ b.started = 0..(Len(Queue) - 1)
                    /\ endedB = b.started
      \* onImageProgress
      /\ Len(pipe'.reported) > Len(pipe.reported) =>
           \E r \in RunIds : /\ runs[r].pc = "inflight" /\ runs'[r] = runs[r]
                              /\ runs[r].i \in runs[r].started
                              /\ runs[r].i \notin Ended(r) ]_vars

\* a run over two images has ended, one image completed and one failed, and
\* the failed one had reported progress
C35_Witness ==
  \E r \in RunIds :
    /\ runs[r].pc = "done"
    /\ runs[r].started = {0, 1}
    /\ runs[r].completed # {} /\ runs[r].failed # {}

\* ---- C36
\* C36: when every processImage call settles, a run begun by start() comes to
\* its end: onQueueComplete is called, once and not before the run's end,
\* after the terminal callback of the last image the run processed, and the
\* step that ends the run leaves isProcessing false, so that the next call of
\* start() passes the guard and begins a run.
C36_RunEnds ==
  /\ \A r \in RunIds :
        Active(r) ~> (runs[r].pc = "done" /\ runs[r].nQueueComplete = 1)
  /\ [](\A r \in RunIds :
          /\ runs[r].nQueueComplete = (IF runs[r].pc = "done" THEN 1 ELSE 0)
          /\ (runs[r].pc = "done" => Ended(r) = runs[r].started))
  /\ [][ /\ \A r \in RunIds :
               ((Active(r) /\ runs'[r].pc = "done") => ~ isProcessing')
          /\ ((~ isProcessing /\ isProcessing') =>
                \E n \in RunIds : ~ Active(n) /\ runs'[n].pc = "inflight"
                                   /\ runs'[n].started = {0}) ]_vars

\* a run over more than one image has ended with an image failed, and the
\* queue is not running
C36_Witness ==
  \E r \in RunIds :
    /\ runs[r].pc = "done" /\ runs[r].nQueueComplete = 1
    /\ Cardinality(runs[r].started) >= 2 /\ runs[r].failed # {}
    /\ ~ isProcessing

\* ---- C37
\* no stage of the call under way has failed: every stage that was called
\* returned an output, and the AI step, when enabled, came to its end
C37_NoStageFailed ==
  /\ \A j \in 1..Len(pipe.stages) : pipe.stages[j].output # NoUrl
  /\ pipe.image.options.enableAIUpscale => ReportedFrom("aiUpscale")

\* an output that the format asks for is at hand
C37_WantedOutput ==
  \/ VectorWanted /\ pipe.svgUrl # NoUrl
  \/ RasterWanted /\ pipe.pngUrl # NoUrl

\* C37: a call in which no stage failed and which holds a wanted output does
\* not end with an error; in particular, with vectorization alone enabled,
\* output format 'both' and vectorizeImage succeeding, the call returns a
\* result with the vector output.
C37_WantedOutputReturns ==
  /\ (pipe.pc = "thrown" /\ C37_NoStageFailed) => ~ C37_WantedOutput
  /\ ( /\ pipe.pc \in {"returned", "thrown"}
       /\ pipe.image.options.enableVectorize
       /\ ~ pipe.image.options.enableBasicEnhancement
       /\ ~ pipe.image.options.enableAIUpscale
       /\ pipe.image.options.outputFormat = "both"
       /\ StageCalls("vectorize") # {} /\ ~ VectorizeFailed )
      => (pipe.pc = "returned" /\ pipe.svgUrl # NoUrl)

\* ---- C38
\* C38: with a numeric dpi and a raster output wanted, the raster that a call
\* returns, every call of the metadata writer having succeeded, carries
\* exactly one pHYs record (the writer was applied once on the way from the
\* enhancement to the finalization, which makes the file 21 bytes longer than
\* the encoded pixels).
C38_OnePhysRecord ==
  ( /\ pipe.pc = "returned"
    /\ RasterWanted /\ pipe.image.options.dpi # 0
    /\ \A j \in StageCalls("addDPIMetadata") : pipe.stages[j].output # NoUrl )
  => (pipe.pngUrl # NoUrl /\ pipe.pngUrl.phys = 1)

\* ---- C39
\* C39: in every state of the upscaling adapter, whatever calls of aiUpscale,
\* degradations to the cpu backend and resets came before, failed
\* initializations included, an Upscaler instance is held if and only if
\* currentScale is set, and currentScale is the scale of the model the
\* instance held was constructed with.
C39_InstanceMatchesScale ==
  /\ (ai.upscalerInstance # 0) <=> (ai.currentScale # 0)
  /\ ai.upscalerInstance # 0 =>
       (ai.currentScale = ai.upscalerInstance /\ ai.currentScale \in SupportedScales)

\* after a degradation to the cpu backend, which dropped the instance, a later
\* call holds the 3x model, and its upscaling step has failed
C39_Witness ==
  /\ ai.desiredBackend = "cpu" /\ ai.upscalerInstance = 3 /\ ai.currentScale = 3
  /\ pipe.pc = "thrown"
  /\ \E j \in 1..Len(pipe.stages) :
       pipe.stages[j].stage = "aiUpscale" /\ pipe.stages[j].output = NoUrl

\* ---- C40
\* C40: on every buffer that begins with the PNG signature, chunk lengths of
\* zero, beyond the buffer or with the top bit set included, the chunk scan
\* of readImageDPI and of readPNGDPI comes to an end and returns a DPI or
\* null.
C40_ScanTerminates ==
  /\ codec.readFile # Unread => codec.readFile.kind \in {"dpi", "null"}
  /\ codec.readPanel # Unread => codec.readPanel.kind \in {"dpi", "null"}
====
